---- MODULE Spec2Model ----
(***************************************************************************)
(* Model of the analyze-news edge function of Fake-news_Detector           *)
(* (supabase/functions/analyze-news/index.ts) and of the Index page that   *)
(* calls it.  Six specifications share the variables:                      *)
(*   Spec          the hybrid score and the verdict resolution             *)
(*   SpecLookup    getSourceCredibility on one domain                      *)
(*   SpecRegistry  lookups one after another, and writes to their results  *)
(*   SpecExtract   extractDomain on one input                              *)
(*   SpecHandler   the handler from the request to the response            *)
(*   SpecPage      the Index page around its analyzeNews calls             *)
(*                                                                         *)
(* The handler computes hybridScore in IEEE-754 double arithmetic          *)
(* (aiPredictionScore * 0.7 + sourceScore * 0.3).  A double x is held here *)
(* exactly, as the pair [tenths |-> T, defect |-> d] that stands for       *)
(*        x = T/10 - d / (10 * 2^56),     |d| < 2^52,                      *)
(* so 0.7 (the double nearest to 7/10) is [tenths |-> 7, defect |-> 32].   *)
(* Every product and sum is rounded to 53 significant bits, ties to even,  *)
(* as the hardware does.                                                   *)
(***************************************************************************)
EXTENDS Integers, Sequences, FiniteSets, TLC

\* ------------------------------------------------------------------------
\* Input domain
\* ------------------------------------------------------------------------

\* Scores and confidences are on a 0..100 scale.
MaxScore == 100

\* How far outside 0..100 a misbehaving scorer's confidence is explored.
ConfSlack == 50

\* aiAnalysis.verdict: the three labels of the prompt, and any other value.
Verdicts == {"REAL", "FAKE", "UNCERTAIN", "OTHER"}

Confidences == (0 - ConfSlack)..(MaxScore + ConfSlack)

InRange(n) == n \in 0..MaxScore

\* ------------------------------------------------------------------------
\* IEEE-754 double arithmetic, exact
\* ------------------------------------------------------------------------

Pow2(n) == 2 ^ n

\* 2^n mod 10, for n >= 0.
Pow2Mod10(n) ==
    IF n = 0 THEN 1
    ELSE CASE n % 4 = 1 -> 2
           [] n % 4 = 2 -> 4
           [] n % 4 = 3 -> 8
           [] OTHER     -> 6

\* The integer n as a double.
Dbl(n) == [tenths |-> 10 * n, defect |-> 0]

DblNeg(x) == [tenths |-> 0 - x.tenths, defect |-> 0 - x.defect]

\* One unit in the last place of the binade [2^(E-4), 2^(E-3)), in units of
\* 2^-56 / 10.
Ulp(E) == 10 * Pow2(E)

\* x >= 2^(E-4), for x with tenths >= 1.
AtOrAboveBinade(x, E) ==
    \/ 16 * x.tenths > Ulp(E)
    \/ 16 * x.tenths = Ulp(E) /\ x.defect <= 0

RECURSIVE BinadeFrom(_, _)
BinadeFrom(x, E) == IF AtOrAboveBinade(x, E + 1) THEN BinadeFrom(x, E + 1) ELSE E

\* x with its defect moved to the nearest multiple of the unit u: m2 is the
\* exact value modulo 2u, so m2 >= u says the quotient below is odd.
RoundToUnit(x, u, m2) ==
    IF 2 * (m2 % u) > u \/ (2 * (m2 % u) = u /\ m2 >= u)
    THEN [tenths |-> x.tenths, defect |-> x.defect + (m2 % u) - u]
    ELSE [tenths |-> x.tenths, defect |-> x.defect + (m2 % u)]

\* The exact value of x modulo 2 ulp of binade E: 2^56 * tenths is
\* 2^(E+1) * (tenths * 2^(55-E)), taken modulo 2^(E+1) * 10.
ModTwoUlp(x, E) ==
    (Pow2(E + 1) * (((x.tenths % 10) * Pow2Mod10(55 - E)) % 10) - x.defect)
        % (2 * Ulp(E))

RoundInBinade(x, E) == RoundToUnit(x, Ulp(E), ModTwoUlp(x, E))

\* Round the exact positive value x to 53 significant bits, ties to even.
RoundMagnitude(x) == RoundInBinade(x, BinadeFrom(x, 0))

\* Round an exact value to the nearest double.  A value with tenths = 0 is a
\* difference of two nearby doubles and is a double itself.
DblRound(x) ==
    IF x.tenths = 0 THEN x
    ELSE IF x.tenths < 0 THEN DblNeg(RoundMagnitude(DblNeg(x)))
    ELSE RoundMagnitude(x)

\* n * w for an integer n and a double w.
DblMulInt(n, w) == DblRound([tenths |-> n * w.tenths, defect |-> n * w.defect])

\* a + b.
DblAdd(a, b) ==
    DblRound([tenths |-> a.tenths + b.tenths, defect |-> a.defect + b.defect])

\* x >= n and x <= n for an integer n; x <= y for doubles.
DblGeqInt(x, n) == x.tenths > 10 * n \/ (x.tenths = 10 * n /\ x.defect <= 0)
DblLeqInt(x, n) == x.tenths < 10 * n \/ (x.tenths = 10 * n /\ x.defect >= 0)
DblLeq(x, y) == x.tenths < y.tenths \/ (x.tenths = y.tenths /\ x.defect >= y.defect)

\* Math.round: the nearest integer, a tie going up.
MathRound(x) ==
    LET q == (x.tenths + 5) \div 10
        r == (x.tenths + 5) % 10
    IN  IF r = 0 /\ x.defect > 0 THEN q - 1 ELSE q

\* The literals 0.7 and 0.3.
AI_WEIGHT == [tenths |-> 7, defect |-> 32]
SOURCE_WEIGHT == [tenths |-> 3, defect |-> 8]

\* ------------------------------------------------------------------------
\* Strings
\* ------------------------------------------------------------------------

\* A string is the sequence of its characters; a value that may be null or
\* missing is <<>> or <<s>>.
Null == <<>>
Some(s) == <<s>>

LowerCase == <<"a", "b", "c", "d", "e", "f", "g", "h", "i", "j", "k", "l", "m",
               "n", "o", "p", "q", "r", "s", "t", "u", "v", "w", "x", "y", "z">>
UpperCase == <<"A", "B", "C", "D", "E", "F", "G", "H", "I", "J", "K", "L", "M",
               "N", "O", "P", "Q", "R", "S", "T", "U", "V", "W", "X", "Y", "Z">>
Digits == <<"0", "1", "2", "3", "4", "5", "6", "7", "8", "9">>

Range(f) == {f[i] : i \in DOMAIN f}

\* String.prototype.startsWith
StartsWith(s, t) == Len(t) <= Len(s) /\ SubSeq(s, 1, Len(t)) = t

\* String.prototype.includes
Includes(s, t) ==
    \E i \in 0..(Len(s) - Len(t)) : SubSeq(s, i + 1, i + Len(t)) = t

\* ------------------------------------------------------------------------
\* The source credibility registry
\* ------------------------------------------------------------------------

\* TRUSTED_SOURCES as the module is loaded: the properties of the object
\* literal in insertion order, each a key and the entry object it holds.
TrustedSourcesInit == <<
    [key |-> <<"k", "a", "t", "h", "m", "a", "n", "d", "u", "p", "o", "s", "t", ".", "c", "o", "m">>,
     value |-> [name |-> <<"T", "h", "e", " ", "K", "a", "t", "h", "m", "a", "n", "d", "u", " ", "P", "o", "s", "t">>,
               score |-> 90, type |-> "mainstream"]],
    [key |-> <<"t", "k", "p", "o", ".", "s", "t">>,
     value |-> [name |-> <<"T", "h", "e", " ", "K", "a", "t", "h", "m", "a", "n", "d", "u", " ", "P", "o", "s", "t">>,
               score |-> 90, type |-> "mainstream"]],
    [key |-> <<"e", "k", "a", "n", "t", "i", "p", "u", "r", ".", "c", "o", "m">>,
     value |-> [name |-> <<"K", "a", "n", "t", "i", "p", "u", "r">>,
               score |-> 88, type |-> "mainstream"]],
    [key |-> <<"k", "a", "n", "t", "i", "p", "u", "r", "d", "a", "i", "l", "y", ".", "c", "o", "m">>,
     value |-> [name |-> <<"K", "a", "n", "t", "i", "p", "u", "r", " ", "D", "a", "i", "l", "y">>,
               score |-> 88, type |-> "mainstream"]],
    [key |-> <<"o", "n", "l", "i", "n", "e", "k", "h", "a", "b", "a", "r", ".", "c", "o", "m">>,
     value |-> [name |-> <<"O", "n", "l", "i", "n", "e", " ", "K", "h", "a", "b", "a", "r">>,
               score |-> 85, type |-> "mainstream"]],
    [key |-> <<"s", "e", "t", "o", "p", "a", "t", "i", ".", "c", "o", "m">>,
     value |-> [name |-> <<"S", "e", "t", "o", "p", "a", "t", "i">>,
               score |-> 85, type |-> "mainstream"]],
    [key |-> <<"r", "a", "t", "o", "p", "a", "t", "i", ".", "c", "o", "m">>,
     value |-> [name |-> <<"R", "a", "t", "o", "p", "a", "t", "i">>,
               score |-> 80, type |-> "mainstream"]],
    [key |-> <<"h", "i", "m", "a", "l", "a", "y", "a", "n", "t", "i", "m", "e", "s", ".", "c", "o", "m">>,
     value |-> [name |-> <<"T", "h", "e", " ", "H", "i", "m", "a", "l", "a", "y", "a", "n", " ", "T", "i", "m", "e", "s">>,
               score |-> 87, type |-> "mainstream"]],
    [key |-> <<"n", "a", "g", "a", "r", "i", "k", "n", "e", "w", "s", ".", "c", "o", "m">>,
     value |-> [name |-> <<"N", "a", "g", "a", "r", "i", "k", " ", "N", "e", "w", "s">>,
               score |-> 85, type |-> "mainstream"]],
    [key |-> <<"n", "e", "p", "a", "l", "i", "t", "i", "m", "e", "s", ".", "c", "o", "m">>,
     value |-> [name |-> <<"N", "e", "p", "a", "l", "i", " ", "T", "i", "m", "e", "s">>,
               score |-> 88, type |-> "mainstream"]],
    [key |-> <<"m", "y", "r", "e", "p", "u", "b", "l", "i", "c", "a", ".", "c", "o", "m">>,
     value |-> [name |-> <<"M", "y", " ", "R", "e", "p", "u", "b", "l", "i", "c", "a">>,
               score |-> 85, type |-> "mainstream"]],
    [key |-> <<"t", "h", "e", "a", "n", "n", "a", "p", "u", "r", "n", "a", "e", "x", "p", "r", "e", "s", "s", ".", "c", "o", "m">>,
     value |-> [name |-> <<"T", "h", "e", " ", "A", "n", "n", "a", "p", "u", "r", "n", "a", " ", "E", "x", "p", "r", "e", "s", "s">>,
               score |-> 85, type |-> "mainstream"]],
    [key |-> <<"r", "i", "s", "i", "n", "g", "n", "e", "p", "a", "l", "d", "a", "i", "l", "y", ".", "c", "o", "m">>,
     value |-> [name |-> <<"T", "h", "e", " ", "R", "i", "s", "i", "n", "g", " ", "N", "e", "p", "a", "l">>,
               score |-> 82, type |-> "state"]],
    [key |-> <<"g", "o", "r", "k", "h", "a", "p", "a", "t", "r", "a", "o", "n", "l", "i", "n", "e", ".", "c", "o", "m">>,
     value |-> [name |-> <<"G", "o", "r", "k", "h", "a", "p", "a", "t", "r", "a">>,
               score |-> 80, type |-> "state"]],
    [key |-> <<"n", "r", "n", "a", ".", "o", "r", "g">>,
     value |-> [name |-> <<"N", "R", "N", "A">>,
               score |-> 75, type |-> "organization"]],
    [key |-> <<"b", "b", "c", ".", "c", "o", "m">>,
     value |-> [name |-> <<"B", "B", "C">>,
               score |-> 92, type |-> "international"]],
    [key |-> <<"b", "b", "c", ".", "c", "o", ".", "u", "k">>,
     value |-> [name |-> <<"B", "B", "C">>,
               score |-> 92, type |-> "international"]],
    [key |-> <<"c", "n", "n", ".", "c", "o", "m">>,
     value |-> [name |-> <<"C", "N", "N">>,
               score |-> 88, type |-> "international"]],
    [key |-> <<"r", "e", "u", "t", "e", "r", "s", ".", "c", "o", "m">>,
     value |-> [name |-> <<"R", "e", "u", "t", "e", "r", "s">>,
               score |-> 95, type |-> "wire"]],
    [key |-> <<"a", "p", "n", "e", "w", "s", ".", "c", "o", "m">>,
     value |-> [name |-> <<"A", "s", "s", "o", "c", "i", "a", "t", "e", "d", " ", "P", "r", "e", "s", "s">>,
               score |-> 95, type |-> "wire"]],
    [key |-> <<"a", "l", "j", "a", "z", "e", "e", "r", "a", ".", "c", "o", "m">>,
     value |-> [name |-> <<"A", "l", " ", "J", "a", "z", "e", "e", "r", "a">>,
               score |-> 85, type |-> "international"]],
    [key |-> <<"n", "y", "t", "i", "m", "e", "s", ".", "c", "o", "m">>,
     value |-> [name |-> <<"N", "e", "w", " ", "Y", "o", "r", "k", " ", "T", "i", "m", "e", "s">>,
               score |-> 90, type |-> "international"]],
    [key |-> <<"t", "h", "e", "g", "u", "a", "r", "d", "i", "a", "n", ".", "c", "o", "m">>,
     value |-> [name |-> <<"T", "h", "e", " ", "G", "u", "a", "r", "d", "i", "a", "n">>,
               score |-> 88, type |-> "international"]],
    [key |-> <<"w", "a", "s", "h", "i", "n", "g", "t", "o", "n", "p", "o", "s", "t", ".", "c", "o", "m">>,
     value |-> [name |-> <<"W", "a", "s", "h", "i", "n", "g", "t", "o", "n", " ", "P", "o", "s", "t">>,
               score |-> 88, type |-> "international"]],
    [key |-> <<"s", "n", "o", "p", "e", "s", ".", "c", "o", "m">>,
     value |-> [name |-> <<"S", "n", "o", "p", "e", "s">>,
               score |-> 92, type |-> "fact-check"]],
    [key |-> <<"f", "a", "c", "t", "c", "h", "e", "c", "k", ".", "o", "r", "g">>,
     value |-> [name |-> <<"F", "a", "c", "t", "C", "h", "e", "c", "k", ".", "o", "r", "g">>,
               score |-> 95, type |-> "fact-check"]],
    [key |-> <<"p", "o", "l", "i", "t", "i", "f", "a", "c", "t", ".", "c", "o", "m">>,
     value |-> [name |-> <<"P", "o", "l", "i", "t", "i", "F", "a", "c", "t">>,
               score |-> 90, type |-> "fact-check"]],
    [key |-> <<"s", "o", "u", "t", "h", "a", "s", "i", "a", "c", "h", "e", "c", "k", ".", "o", "r", "g">>,
     value |-> [name |-> <<"S", "o", "u", "t", "h", " ", "A", "s", "i", "a", " ", "C", "h", "e", "c", "k">>,
               score |-> 90, type |-> "fact-check"]]>>

\* UNRELIABLE_SOURCES as the module is loaded, in insertion order.
UnreliableSourcesInit == <<
    [key |-> <<"t", "h", "e", "o", "n", "i", "o", "n", ".", "c", "o", "m">>,
     value |-> [name |-> <<"T", "h", "e", " ", "O", "n", "i", "o", "n">>,
               score |-> 10, reason |-> "satire"]],
    [key |-> <<"b", "a", "b", "y", "l", "o", "n", "b", "e", "e", ".", "c", "o", "m">>,
     value |-> [name |-> <<"T", "h", "e", " ", "B", "a", "b", "y", "l", "o", "n", " ", "B", "e", "e">>,
               score |-> 10, reason |-> "satire"]],
    [key |-> <<"i", "n", "f", "o", "w", "a", "r", "s", ".", "c", "o", "m">>,
     value |-> [name |-> <<"I", "n", "f", "o", "W", "a", "r", "s">>,
               score |-> 15, reason |-> "conspiracy"]],
    [key |-> <<"n", "a", "t", "u", "r", "a", "l", "n", "e", "w", "s", ".", "c", "o", "m">>,
     value |-> [name |-> <<"N", "a", "t", "u", "r", "a", "l", " ", "N", "e", "w", "s">>,
               score |-> 20, reason |-> "misinformation"]]>>

\* The property names both tables inherit from Object.prototype: they are
\* object literals, and table[domain] reads inherited properties too.
ObjectPrototypeKeys == {
    <<"c", "o", "n", "s", "t", "r", "u", "c", "t", "o", "r">>,
    <<"_", "_", "p", "r", "o", "t", "o", "_", "_">>,
    <<"h", "a", "s", "O", "w", "n", "P", "r", "o", "p", "e", "r", "t", "y">>,
    <<"i", "s", "P", "r", "o", "t", "o", "t", "y", "p", "e", "O", "f">>,
    <<"p", "r", "o", "p", "e", "r", "t", "y", "I", "s", "E", "n", "u", "m", "e", "r", "a", "b", "l", "e">>,
    <<"t", "o", "L", "o", "c", "a", "l", "e", "S", "t", "r", "i", "n", "g">>,
    <<"t", "o", "S", "t", "r", "i", "n", "g">>,
    <<"v", "a", "l", "u", "e", "O", "f">>,
    <<"_", "_", "d", "e", "f", "i", "n", "e", "G", "e", "t", "t", "e", "r", "_", "_">>,
    <<"_", "_", "d", "e", "f", "i", "n", "e", "S", "e", "t", "t", "e", "r", "_", "_">>,
    <<"_", "_", "l", "o", "o", "k", "u", "p", "G", "e", "t", "t", "e", "r", "_", "_">>,
    <<"_", "_", "l", "o", "o", "k", "u", "p", "S", "e", "t", "t", "e", "r", "_", "_">>}

\* table[domain] for a key the object literal defines: the place of the
\* property, or 0 when the table has no own property of that name.
OwnIndex(table, d) ==
    IF \E i \in DOMAIN table : table[i].key = d
    THEN CHOOSE i \in DOMAIN table : table[i].key = d
    ELSE 0

\* if (TABLE[domain]): an own entry, or a property inherited from
\* Object.prototype; every one of them is an object or a function, so truthy.
HasProperty(table, d) == OwnIndex(table, d) # 0 \/ d \in ObjectPrototypeKeys

\* The own enumerable properties that { ...TABLE[domain] } copies: the
\* entry's fields, and none for an inherited function or prototype object.
Spread(table, d) ==
    IF OwnIndex(table, d) # 0 THEN table[OwnIndex(table, d)].value ELSE << >>

\* domain.includes(key) || key.includes(domain)
PartialMatch(d, key) == Includes(d, key) \/ Includes(key, d)

\* PartialIndex with the last matching entry in place of the first.
PartialIndex_Last(trusted, d) ==
    IF \E i \in DOMAIN trusted : PartialMatch(d, trusted[i].key)
    THEN CHOOSE i \in DOMAIN trusted :
            /\ PartialMatch(d, trusted[i].key)
            /\ \A j \in (i + 1)..Len(trusted) : ~PartialMatch(d, trusted[j].key)
    ELSE 0

\* The first entry of Object.entries(TRUSTED_SOURCES) that matches partially,
\* or 0.
PartialIndex(trusted, d) ==
    IF \E i \in DOMAIN trusted : PartialMatch(d, trusted[i].key)
    THEN CHOOSE i \in DOMAIN trusted :
            /\ PartialMatch(d, trusted[i].key)
            /\ \A j \in 1..(i - 1) : ~PartialMatch(d, trusted[j].key)
    ELSE 0

\* Rule with the partial-match loop ahead of the unreliable table.
Rule_PartialFirst(trusted, unreliable, dom) ==
    IF dom = Null \/ dom = Some(<< >>) THEN "null"
    ELSE IF HasProperty(trusted, dom[1]) THEN "trusted"
    ELSE IF PartialIndex(trusted, dom[1]) # 0 THEN "partial"
    ELSE IF HasProperty(unreliable, dom[1]) THEN "unreliable"
    ELSE "unknown"

\* The return statement of getSourceCredibility that runs; !domain holds for
\* null and for the empty string.
Rule(trusted, unreliable, dom) ==
    IF dom = Null \/ dom = Some(<< >>) THEN "null"
    ELSE IF HasProperty(trusted, dom[1]) THEN "trusted"
    ELSE IF HasProperty(unreliable, dom[1]) THEN "unreliable"
    ELSE IF PartialIndex(trusted, dom[1]) # 0 THEN "partial"
    ELSE "unknown"

\* return { name: "Unknown", score: 50, type: "unknown", ... }
NullAssessment ==
    [name |-> <<"U", "n", "k", "n", "o", "w", "n">>, score |-> 50,
     type |-> "unknown", known |-> FALSE, isReliable |-> FALSE]

\* return { ...source, known: true, isReliable: true }, for an exact and for
\* a partial match.  A field the spread does not copy is left out of the
\* record.
TrustedAssessment(source) == [known |-> TRUE, isReliable |-> TRUE] @@ source

\* return { name: source.name, score: source.score, type: source.reason, ... }
UnreliableAssessment(source) ==
    [name |-> source.name, score |-> source.score, type |-> source.reason,
     known |-> TRUE, isReliable |-> FALSE, reason |-> source.reason]

\* UnknownAssessment with the placeholder name of the null case.
UnknownAssessment_Anonymous(d) ==
    [name |-> <<"U", "n", "k", "n", "o", "w", "n">>, score |-> 50,
     type |-> "unknown", known |-> FALSE, isReliable |-> FALSE]

\* return { name: domain, score: 50, type: "unknown", ... }
UnknownAssessment(d) ==
    [name |-> d, score |-> 50, type |-> "unknown",
     known |-> FALSE, isReliable |-> FALSE]

\* The object the return statement of each rule builds.  The unreliable rule
\* always finds an own entry: an inherited property is found in the trusted
\* table first.
Assessment(trusted, unreliable, dom, rule) ==
    CASE rule = "null" -> NullAssessment
      [] rule = "trusted" -> TrustedAssessment(Spread(trusted, dom[1]))
      [] rule = "unreliable" ->
           UnreliableAssessment(unreliable[OwnIndex(unreliable, dom[1])].value)
      [] rule = "partial" ->
           TrustedAssessment(trusted[PartialIndex(trusted, dom[1])].value)
      [] OTHER -> UnknownAssessment(dom[1])

\* getSourceCredibility(domain)
GetSourceCredibility(trusted, unreliable, dom) ==
    Assessment(trusted, unreliable, dom, Rule(trusted, unreliable, dom))

\* ReturnedObject with the trusted entry handed out itself.
ReturnedObject_Shared(trusted, unreliable, dom) ==
    IF Rule(trusted, unreliable, dom) = "trusted" /\ OwnIndex(trusted, dom[1]) # 0
    THEN OwnIndex(trusted, dom[1])
    ELSE 0

\* Which object the caller receives: every return statement builds a new
\* object literal, so never an entry of a table.  0 is a new object, i > 0
\* would be the i-th trusted entry itself.
ReturnedObject(trusted, unreliable, dom) == 0

\* ------------------------------------------------------------------------
\* extractDomain
\* ------------------------------------------------------------------------
\* Inputs are strings over letters, digits and . - _ : / and the space.
\* Of the URL parser only what such inputs reach is modelled: no userinfo,
\* query, fragment, bracketed or numeric host, and no port above 65535.

\* [a-zA-Z]
Letters == Range(LowerCase) \cup Range(UpperCase)

IsLetter(c) == c \in Letters

IsDigit(c) == c \in Range(Digits)

IsSpace(c) == c = " "

\* The characters of a URL scheme after its first letter.
SchemeChars == Letters \cup Range(Digits) \cup {"+", "-", "."}

\* [a-zA-Z0-9-]
LabelChars == Letters \cup Range(Digits) \cup {"-"}

LowerChar(c) ==
    IF \E i \in DOMAIN UpperCase : UpperCase[i] = c
    THEN LowerCase[CHOOSE i \in DOMAIN UpperCase : UpperCase[i] = c]
    ELSE c

ToLowerCase(s) == [i \in DOMAIN s |-> LowerChar(s[i])]

\* The last place of the longest run of characters of a class that starts at
\* from; from - 1 when s[from] is not of the class.
RunEnd(s, from, class) ==
    IF \E j \in from..Len(s) : s[j] \notin class
    THEN (CHOOSE j \in from..Len(s) :
             s[j] \notin class /\ \A k \in from..(j - 1) : s[k] \in class) - 1
    ELSE Len(s)

\* The last place before the first stop character at or after from.
RunUntil(s, from, stops) ==
    IF \E j \in from..Len(s) : s[j] \in stops
    THEN (CHOOSE j \in from..Len(s) :
             s[j] \in stops /\ \A k \in from..(j - 1) : s[k] \notin stops) - 1
    ELSE Len(s)

\* The URL parser first drops leading and trailing spaces.
Trim(s) ==
    IF \A i \in DOMAIN s : IsSpace(s[i]) THEN << >>
    ELSE SubSeq(s, RunEnd(s, 1, {" "}) + 1,
                CHOOSE j \in DOMAIN s :
                    ~IsSpace(s[j]) /\ \A k \in (j + 1)..Len(s) : IsSpace(s[k]))

HttpScheme == <<"h", "t", "t", "p">>

HttpsScheme == <<"h", "t", "t", "p", "s">>

\* Host and port of an authority; Null when the parser reports failure.
\* A special (http, https) host must be non-empty and is lower-cased; any
\* other scheme keeps its host as written.  A space is a forbidden host
\* code point, and a port holds digits only.
HostOfAuthority(authority, special) ==
    LET host == SubSeq(authority, 1, RunUntil(authority, 1, {":"}))
        hasPort == Len(host) < Len(authority)
        port == SubSeq(authority, Len(host) + 2, Len(authority))
    IN  IF hasPort /\ host = << >> THEN Null
        ELSE IF hasPort /\ \E i \in DOMAIN port : ~IsDigit(port[i]) THEN Null
        ELSE IF special /\ host = << >> THEN Null
        ELSE IF \E i \in DOMAIN host : IsSpace(host[i]) THEN Null
        ELSE Some(IF special THEN ToLowerCase(host) ELSE host)

\* What follows "http:" or "https:": any number of slashes, then the
\* authority up to the next slash.
SpecialHostname(rest) ==
    LET afterSlashes == SubSeq(rest, RunEnd(rest, 1, {"/"}) + 1, Len(rest))
    IN  HostOfAuthority(
            SubSeq(afterSlashes, 1, RunUntil(afterSlashes, 1, {"/"})), TRUE)

\* What follows the colon of any other scheme: an authority only after "//",
\* otherwise a path and an empty hostname.
OtherHostname(rest) ==
    IF StartsWith(rest, <<"/", "/">>)
    THEN LET afterSlashes == SubSeq(rest, 3, Len(rest))
         IN  HostOfAuthority(
                 SubSeq(afterSlashes, 1, RunUntil(afterSlashes, 1, {"/"})), FALSE)
    ELSE Some(<< >>)

\* new URL(input).hostname, or Null when the constructor throws.  Without a
\* base the input must open with a scheme and its colon.  The input of
\* extractDomain always opens with "http", so http and https are the only
\* special schemes it can carry.
UrlHostname(input) ==
    LET s == Trim(input)
        schemeEnd == RunEnd(s, 1, SchemeChars)
    IN  IF s = << >> \/ ~IsLetter(s[1]) THEN Null
        ELSE IF schemeEnd = Len(s) \/ s[schemeEnd + 1] # ":" THEN Null
        ELSE LET scheme == ToLowerCase(SubSeq(s, 1, schemeEnd))
                 rest == SubSeq(s, schemeEnd + 2, Len(s))
             IN  IF scheme \in {HttpScheme, HttpsScheme}
                 THEN SpecialHostname(rest)
                 ELSE OtherHostname(rest)

\* hostname.replace(/^www\./, "")
StripWww(h) ==
    IF StartsWith(h, <<"w", "w", "w", ".">>) THEN SubSeq(h, 5, Len(h)) ELSE h

\* ([a-zA-Z0-9-]+\.[a-zA-Z]{2,}) tried at place j: the label is the whole
\* run up to a dot, the ending the whole run of letters after it.
GroupAt(s, j) ==
    LET labelEnd == RunEnd(s, j, LabelChars)
        tldEnd == RunEnd(s, labelEnd + 2, Letters)
    IN  IF /\ labelEnd >= j
           /\ labelEnd < Len(s)
           /\ s[labelEnd + 1] = "."
           /\ tldEnd >= labelEnd + 3
        THEN Some(SubSeq(s, j, tldEnd))
        ELSE Null

\* The length of (?:https?:\/\/)? at place i.
SchemeLenAt(s, i) ==
    LET tail == SubSeq(s, i, Len(s))
    IN  IF StartsWith(tail, HttpsScheme \o <<":", "/", "/">>) THEN 8
        ELSE IF StartsWith(tail, HttpScheme \o <<":", "/", "/">>) THEN 7
        ELSE 0

\* The length of (?:www\.)? at place i.
WwwLenAt(s, i) ==
    IF StartsWith(SubSeq(s, i, Len(s)), <<"w", "w", "w", ".">>) THEN 4 ELSE 0

\* The whole pattern tried at place i: each optional part is taken first
\* and given up only if the rest then fails.
MatchAt(s, i) ==
    LET afterScheme == i + SchemeLenAt(s, i)
        tries == <<GroupAt(s, afterScheme + WwwLenAt(s, afterScheme)),
                   GroupAt(s, afterScheme),
                   GroupAt(s, i + WwwLenAt(s, i)),
                   GroupAt(s, i)>>
    IN  IF \E n \in 1..4 : tries[n] # Null
        THEN tries[CHOOSE n \in 1..4 :
                      tries[n] # Null /\ \A k \in 1..(n - 1) : tries[k] = Null]
        ELSE Null

\* urlOrText.match(...)[1] of the leftmost match, or Null.
RegexDomain(s) ==
    IF \E i \in DOMAIN s : MatchAt(s, i) # Null
    THEN MatchAt(s, CHOOSE i \in DOMAIN s :
                       MatchAt(s, i) # Null
                       /\ \A k \in 1..(i - 1) : MatchAt(s, k) = Null)
    ELSE Null

\* extractDomain(urlOrText)
ExtractDomain(urlOrText) ==
    LET hostname ==
            UrlHostname(IF StartsWith(urlOrText, HttpScheme) THEN urlOrText
                        ELSE HttpsScheme \o <<":", "/", "/">> \o urlOrText)
    IN  IF hostname # Null THEN Some(StripWww(hostname[1]))
        ELSE RegexDomain(urlOrText)

\* ------------------------------------------------------------------------
\* The handler, from the scorer's parsed answer to the response
\* ------------------------------------------------------------------------

VARIABLES
    pc,                 \* "scored": aiAnalysis and sourceInfo are known;
                        \* "responded": the response has been sent
    aiAnalysis,         \* the scorer's parsed answer: verdict and confidence
    sourceScore,        \* sourceInfo.score
    aiPredictionScore,  \* the directional content score
    hybridScore,        \* the unrounded blend, a double
    branch,             \* the arm of the verdict if/else chain that ran
    result              \* the response body

\* The credibility lookup
VARIABLES
    TRUSTED_SOURCES,    \* the trusted table
    UNRELIABLE_SOURCES, \* the unreliable table
    domain,             \* the argument of getSourceCredibility: Null or Some(s)
    sourceInfo,         \* the object getSourceCredibility returned
    returned            \* the identity of that object: 0 a new object,
                        \* i > 0 the i-th trusted entry, -1 before any lookup

resolveVars ==
    <<pc, aiAnalysis, sourceScore, aiPredictionScore, hybridScore, branch, result>>

lookupVars == <<TRUSTED_SOURCES, UNRELIABLE_SOURCES, domain, sourceInfo, returned>>

\* The request and its response
VARIABLES
    req,                \* the request: its method and its JSON body
    LOVABLE_API_KEY,    \* whether the environment holds the gateway key
    contentToAnalyze,   \* text || ""
    urlOrText,          \* the argument of extractDomain
    gateway,            \* how the call of the AI gateway ended
    response            \* the Response the handler returns

handlerVars ==
    <<req, LOVABLE_API_KEY, contentToAnalyze, urlOrText, gateway, response>>

\* The Index page
VARIABLES
    isLoading,          \* useState(false)
    indexResult,        \* the page's result state, useState(null)
    call,               \* the analyzeNews call under way, if any
    toast,              \* the toast shown last
    outstanding         \* how many analyzeNews calls have not settled yet

pageVars == <<isLoading, indexResult, call, toast, outstanding>>

\* The NewsFeed component
VARIABLES
    articles,           \* useState([]): the batch shown, named by the load that fetched it
    feedIsLoading,      \* the component's isLoading, useState(true)
    feedError,          \* the component's error, useState(null)
    mounted,            \* the effect has run and the interval is set
    loads,              \* the loadNews calls awaiting fetchNepalNews
    started             \* how many loadNews calls have been started

feedVars == <<articles, feedIsLoading, feedError, mounted, loads, started>>

\* The NewsInputSection component and the object URLs of its document
VARIABLES
    mode,               \* useState("url")
    newsUrl,            \* useState("")
    selectedImage,      \* useState(null)
    imagePreview,       \* useState(null)
    inputError,         \* the component's error, useState("")
    objectUrls,         \* the URLs made by createObjectURL and not revoked
    created,            \* how many object URLs have been made
    called              \* the callback handleAnalyze called last, with its argument

inputVars == <<mode, newsUrl, selectedImage, imagePreview, inputError,
               objectUrls, created, called>>

uiVars == <<feedVars, inputVars>>

vars == <<resolveVars, lookupVars, handlerVars, pageVars, uiVars>>

\* Before any lookup: no object has been returned.
NoSourceInfo == << >>

\* The module is loaded and no lookup is under way.
LookupIdle ==
    /\ TRUSTED_SOURCES = TrustedSourcesInit
    /\ UNRELIABLE_SOURCES = UnreliableSourcesInit
    /\ domain = Null
    /\ sourceInfo = NoSourceInfo
    /\ returned = -1

\* No request has arrived.
NoRequest == [method |-> "NONE"]

NoResponse == [status |-> 0]

\* The gateway has not been called.
NoGateway == [kind |-> "none"]

HandlerIdle ==
    /\ req = NoRequest
    /\ LOVABLE_API_KEY = TRUE
    /\ contentToAnalyze = << >>
    /\ urlOrText = << >>
    /\ gateway = NoGateway
    /\ response = NoResponse

\* The page as it is mounted.
PageIdle ==
    /\ isLoading = FALSE
    /\ indexResult = Null
    /\ call = "none"
    /\ toast = "none"
    /\ outstanding = 0

\* NewsFeed before its effect has run.
FeedIdle ==
    /\ articles = << >>
    /\ feedIsLoading = TRUE
    /\ feedError = Null
    /\ mounted = FALSE
    /\ loads = {}
    /\ started = 0

NoCall == [callback |-> "none"]

\* NewsInputSection as it is mounted.
InputIdle ==
    /\ mode = "url"
    /\ newsUrl = << >>
    /\ selectedImage = Null
    /\ imagePreview = Null
    /\ inputError = ""
    /\ objectUrls = {}
    /\ created = 0
    /\ called = NoCall

UiIdle == FeedIdle /\ InputIdle

\* const aiConfidence = aiAnalysis.confidence || 50;
\* 0 and a missing confidence are both falsy.
AiConfidence(a) ==
    IF a.hasConfidence /\ a.confidence # 0 THEN a.confidence ELSE 50

\* AiPredictionScore with the FAKE arm negating instead of inverting.
AiPredictionScore_Negated(verdict, aiConfidence) ==
    IF verdict = "REAL" THEN aiConfidence
    ELSE IF verdict = "FAKE" THEN 0 - aiConfidence
    ELSE 50

\* let aiPredictionScore = 50; if REAL ... else if FAKE ... else ...
AiPredictionScore(verdict, aiConfidence) ==
    IF verdict = "REAL" THEN aiConfidence
    ELSE IF verdict = "FAKE" THEN 100 - aiConfidence
    ELSE 50

\* HybridScore with the two weights swapped.
HybridScore_Swapped(p, s) ==
    DblAdd(DblMulInt(p, SOURCE_WEIGHT), DblMulInt(s, AI_WEIGHT))

\* HybridScore with the source term counted against the article.
HybridScore_SourceInverted(p, s) ==
    DblAdd(DblMulInt(p, AI_WEIGHT), DblMulInt(100 - s, SOURCE_WEIGHT))

\* const hybridScore = (aiPredictionScore * 0.7) + (sourceScore * 0.3);
HybridScore(p, s) == DblAdd(DblMulInt(p, AI_WEIGHT), DblMulInt(s, SOURCE_WEIGHT))

\* LikelyRealCond with a strict bound on the source score.
LikelyRealCond_Strict(s, verdict, aiConfidence) ==
    s > 80 /\ verdict = "FAKE" /\ aiConfidence < 70

\* LikelyFakeCond with the confidence bound of 50.
LikelyFakeCond_Conf50(s, verdict, aiConfidence) ==
    s < 40 /\ verdict = "REAL" /\ aiConfidence < 50

\* LikelyFakeCond with an inclusive bound on the source score.
LikelyFakeCond_Inclusive(s, verdict, aiConfidence) ==
    s <= 40 /\ verdict = "REAL" /\ aiConfidence < 70

\* credible source + AI says FAKE with low confidence
LikelyRealCond(s, verdict, aiConfidence) ==
    s >= 80 /\ verdict = "FAKE" /\ aiConfidence < 70

\* LikelyFakeCond without the test of the source score.
LikelyFakeCond_AnySource(s, verdict, aiConfidence) ==
    verdict = "REAL" /\ aiConfidence < 70

LikelyFakeCond(s, verdict, aiConfidence) ==
    s < 40 /\ verdict = "REAL" /\ aiConfidence < 70

\* Branch with the verdicts of the two threshold arms exchanged.
Branch_ArmsSwapped(s, verdict, aiConfidence, h) ==
    IF LikelyRealCond(s, verdict, aiConfidence) THEN "likelyReal"
    ELSE IF LikelyFakeCond(s, verdict, aiConfidence) THEN "likelyFake"
    ELSE IF DblGeqInt(h, 65) THEN "fake"
    ELSE IF DblLeqInt(h, 35) THEN "real"
    ELSE "uncertain"

\* The arm of the if / else if chain that runs.
Branch(s, verdict, aiConfidence, h) ==
    IF LikelyRealCond(s, verdict, aiConfidence) THEN "likelyReal"
    ELSE IF LikelyFakeCond(s, verdict, aiConfidence) THEN "likelyFake"
    ELSE IF DblGeqInt(h, 65) THEN "real"
    ELSE IF DblLeqInt(h, 35) THEN "fake"
    ELSE "uncertain"

\* finalVerdict as the arm assigns it.
FinalVerdict(b) ==
    CASE b = "likelyReal" -> "LIKELY_REAL"
      [] b = "likelyFake" -> "LIKELY_FAKE"
      [] b = "real"       -> "REAL"
      [] b = "fake"       -> "FAKE"
      [] OTHER            -> "UNCERTAIN"

\* IsUncertain with the two override arms leaving the flag unset.
IsUncertain_ThresholdOnly(b) == b = "uncertain"

\* isUncertain starts false; three arms set it.
IsUncertain(b) == b \in {"likelyReal", "likelyFake", "uncertain"}

\* The fields of the response body that the verdict resolution decides.
Result(a, s, h, b) ==
    [ai_prediction    |-> a.verdict,
     ai_confidence    |-> AiConfidence(a),
     source_score     |-> s,
     hybrid_score     |-> MathRound(h),
     ai_weight        |-> AI_WEIGHT,
     source_weight    |-> SOURCE_WEIGHT,
     final_verdict    |-> FinalVerdict(b),
     final_confidence |-> MathRound(h),
     is_uncertain     |-> IsUncertain(b)]

NoResult ==
    [ai_prediction    |-> "NONE",
     ai_confidence    |-> 0,
     source_score     |-> 0,
     hybrid_score     |-> 0,
     ai_weight        |-> Dbl(0),
     source_weight    |-> Dbl(0),
     final_verdict    |-> "NONE",
     final_confidence |-> 0,
     is_uncertain     |-> FALSE]

\* The scorer has answered and the source has been looked up.
Init ==
    /\ pc = "scored"
    /\ aiAnalysis \in
         [verdict : Verdicts, hasConfidence : {TRUE}, confidence : Confidences]
         \cup [verdict : Verdicts, hasConfidence : {FALSE}, confidence : {0}]
    /\ sourceScore \in 0..MaxScore
    /\ aiPredictionScore = 0
    /\ hybridScore = Dbl(0)
    /\ branch = "none"
    /\ result = NoResult
    /\ LookupIdle
    /\ HandlerIdle
    /\ PageIdle
    /\ UiIdle

\* Blend, resolve the verdict, send the response.
Resolve ==
    /\ pc = "scored"
    /\ aiPredictionScore' =
         AiPredictionScore(aiAnalysis.verdict, AiConfidence(aiAnalysis))
    /\ hybridScore' = HybridScore(aiPredictionScore', sourceScore)
    /\ branch' = Branch(sourceScore, aiAnalysis.verdict,
                        AiConfidence(aiAnalysis), hybridScore')
    /\ result' = Result(aiAnalysis, sourceScore, hybridScore', branch')
    /\ pc' = "responded"
    /\ UNCHANGED <<aiAnalysis, sourceScore, lookupVars, handlerVars, pageVars, uiVars>>

Next == Resolve

Spec == Init /\ [][Next]_vars

\* ------------------------------------------------------------------------
\* Properties of the verdict resolution
\* ------------------------------------------------------------------------

Responded == pc = "responded"

\* The scorer's confidence is a number in 0..100.
TypedConfidence == aiAnalysis.hasConfidence /\ InRange(aiAnalysis.confidence)

\* C1: for every confidence c in 0..100, c = 0 included, the content score
\* used in the blend is c for REAL, 100 - c for FAKE and 50 for any other
\* label.
C1_ContentScore ==
    Responded /\ TypedConfidence =>
        aiPredictionScore =
            IF aiAnalysis.verdict = "REAL" THEN aiAnalysis.confidence
            ELSE IF aiAnalysis.verdict = "FAKE" THEN 100 - aiAnalysis.confidence
            ELSE 50

\* C2: source score >= 80, label FAKE and confidence < 70 give LIKELY_REAL
\* with is_uncertain = true, whatever the hybrid score.
C2_LikelyRealOverride ==
    /\ Responded
    /\ sourceScore >= 80
    /\ aiAnalysis.verdict = "FAKE"
    /\ aiAnalysis.hasConfidence
    /\ aiAnalysis.confidence < 70
    => result.final_verdict = "LIKELY_REAL" /\ result.is_uncertain

\* The likely-real override fired although the hybrid score alone says REAL.
C2_Witness ==
    /\ Responded
    /\ sourceScore >= 80
    /\ aiAnalysis.verdict = "FAKE"
    /\ aiAnalysis.hasConfidence
    /\ aiAnalysis.confidence \in 1..69
    /\ result.hybrid_score >= 65
    /\ result.final_verdict = "LIKELY_REAL"

\* C3: source score < 40, label REAL and confidence < 70 give LIKELY_FAKE
\* with is_uncertain = true, whatever the hybrid score.
C3_LikelyFakeOverride ==
    /\ Responded
    /\ sourceScore < 40
    /\ aiAnalysis.verdict = "REAL"
    /\ aiAnalysis.hasConfidence
    /\ aiAnalysis.confidence < 70
    => result.final_verdict = "LIKELY_FAKE" /\ result.is_uncertain

\* The likely-fake override fired although the hybrid score alone says FAKE.
C3_Witness ==
    /\ Responded
    /\ sourceScore < 40
    /\ aiAnalysis.verdict = "REAL"
    /\ aiAnalysis.hasConfidence
    /\ aiAnalysis.confidence \in 1..69
    /\ result.hybrid_score <= 35
    /\ result.final_verdict = "LIKELY_FAKE"

\* The three branches of the verdict resolution, told from the response.
OverrideReal ==
    result.source_score >= 80 /\ result.ai_prediction = "FAKE"
        /\ result.ai_confidence < 70
OverrideFake ==
    result.source_score < 40 /\ result.ai_prediction = "REAL"
        /\ result.ai_confidence < 70

\* Neither override condition holds of the response.
NoOverride == ~OverrideReal /\ ~OverrideFake

\* C4: without an override the reported hybrid_score decides the verdict:
\* REAL, certain, exactly when it is >= 65; FAKE, certain, exactly when it is
\* <= 35; UNCERTAIN, uncertain, otherwise.
C4_ThresholdOnReportedScore ==
    Responded /\ TypedConfidence /\ NoOverride =>
        /\ (result.final_verdict = "REAL" /\ ~result.is_uncertain)
              <=> result.hybrid_score >= 65
        /\ (result.final_verdict = "FAKE" /\ ~result.is_uncertain)
              <=> result.hybrid_score <= 35
        /\ (result.final_verdict = "UNCERTAIN" /\ result.is_uncertain)
              <=> result.hybrid_score \in 36..64

\* C5: exactly one of the three branches (likely-real override, likely-fake
\* override, threshold) decides the verdict: the override conditions never
\* hold together, the likely-real override does not fire at source score
\* 79, the likely-fake override does not fire at 40 or 41, and
\* final_verdict is one of the five values.
C5_ExactlyOneBranch ==
    Responded =>
        /\ ~(OverrideReal /\ OverrideFake)
        /\ branch \in {"likelyReal", "likelyFake", "real", "fake", "uncertain"}
        /\ branch = "likelyReal" <=> OverrideReal
        /\ branch = "likelyFake" <=> OverrideFake
        /\ branch \in {"real", "fake", "uncertain"} <=> NoOverride
        /\ result.final_verdict = "LIKELY_REAL" <=> branch = "likelyReal"
        /\ result.final_verdict = "LIKELY_FAKE" <=> branch = "likelyFake"
        /\ result.final_verdict \in {"REAL", "FAKE", "UNCERTAIN"}
              <=> branch \in {"real", "fake", "uncertain"}
        /\ sourceScore = 79 => result.final_verdict # "LIKELY_REAL"
        /\ sourceScore \in {40, 41} => result.final_verdict # "LIKELY_FAKE"
        /\ result.final_verdict \in
              {"REAL", "FAKE", "LIKELY_REAL", "LIKELY_FAKE", "UNCERTAIN"}

\* Source score 40 with a REAL label of low confidence: the threshold
\* branch decides.
C5_Witness ==
    /\ Responded
    /\ sourceScore = 40
    /\ aiAnalysis.verdict = "REAL"
    /\ aiAnalysis.hasConfidence
    /\ aiAnalysis.confidence \in 1..69
    /\ branch \in {"real", "fake", "uncertain"}

\* C6: hybrid_score is contentScore * 0.7 + sourceScore * 0.3 rounded to the
\* nearest integer (within 1/2 of the exact blend), the reported weights
\* are 0.7 and 0.3 and sum to 1, and final_confidence equals hybrid_score;
\* REAL/90 with source 50 gives 78 and FAKE/90 with source 50 gives 22.
C6_BlendAndWeights ==
    Responded =>
        /\ 10 * result.hybrid_score - (7 * aiPredictionScore + 3 * sourceScore)
              \in -5..5
        /\ result.ai_weight = [tenths |-> 7, defect |-> 32]
        /\ result.source_weight = [tenths |-> 3, defect |-> 8]
        /\ DblAdd(result.ai_weight, result.source_weight) = Dbl(1)
        /\ result.final_confidence = result.hybrid_score
        /\ (aiAnalysis = [verdict |-> "REAL", hasConfidence |-> TRUE,
                          confidence |-> 90] /\ sourceScore = 50)
              => result.hybrid_score = 78
        /\ (aiAnalysis = [verdict |-> "FAKE", hasConfidence |-> TRUE,
                          confidence |-> 90] /\ sourceScore = 50)
              => result.hybrid_score = 22

\* FAKE/90 with source 50 has been answered with 22.
C6_Witness ==
    /\ Responded
    /\ aiAnalysis = [verdict |-> "FAKE", hasConfidence |-> TRUE, confidence |-> 90]
    /\ sourceScore = 50
    /\ aiPredictionScore = 10
    /\ result.hybrid_score = 22
    /\ result.final_confidence = 22

\* C7: for every confidence in 0..100, every label and every source score
\* in 0..100, hybrid_score is an integer in 0..100.
C7_HybridScoreInRange ==
    Responded /\ TypedConfidence => result.hybrid_score \in 0..MaxScore

\* The top of the range is reported: REAL/100 from a source scored 100.
C7_Witness ==
    /\ Responded
    /\ TypedConfidence
    /\ sourceScore = MaxScore
    /\ aiAnalysis.verdict = "REAL"
    /\ aiAnalysis.confidence = MaxScore
    /\ result.hybrid_score = MaxScore

\* The blend of every content score with every source score.
HybridTable ==
    [p \in Confidences |-> [s \in 0..MaxScore |-> HybridScore(p, s)]]

\* C8: with the label and the confidence fixed, a higher source score never
\* gives a lower hybrid score, before and after rounding.
C8_MonotoneInSourceScore ==
    Responded =>
        \A s2 \in sourceScore..MaxScore :
            /\ DblLeq(hybridScore, HybridTable[aiPredictionScore][s2])
            /\ result.hybrid_score <= MathRound(HybridTable[aiPredictionScore][s2])

\* A response at source score 0 whose hybrid score rises by 30 at source
\* score 100.
C8_Witness ==
    /\ Responded
    /\ TypedConfidence
    /\ sourceScore = 0
    /\ MathRound(HybridTable[aiPredictionScore][MaxScore])
          = result.hybrid_score + 30

\* C9: is_uncertain is true exactly for LIKELY_REAL, LIKELY_FAKE and
\* UNCERTAIN, and false exactly for REAL and FAKE.
C9_UncertainFlag ==
    Responded =>
        /\ result.is_uncertain
              <=> result.final_verdict \in {"LIKELY_REAL", "LIKELY_FAKE", "UNCERTAIN"}
        /\ ~result.is_uncertain <=> result.final_verdict \in {"REAL", "FAKE"}

\* Scenario E: UNCERTAIN/50 with source 50 is answered UNCERTAIN, uncertain.
C9_Witness ==
    /\ Responded
    /\ aiAnalysis = [verdict |-> "UNCERTAIN", hasConfidence |-> TRUE, confidence |-> 50]
    /\ sourceScore = 50
    /\ result.final_verdict = "UNCERTAIN"
    /\ result.is_uncertain

\* C10: a scorer confidence outside 0..100 is clamped: hybrid_score and
\* final_confidence still lie in 0..100.
C10_OutOfRangeClamped ==
    Responded /\ aiAnalysis.hasConfidence =>
        /\ result.hybrid_score \in 0..MaxScore
        /\ result.final_confidence \in 0..MaxScore

\* The place of a verdict in FAKE < LIKELY_FAKE < UNCERTAIN < LIKELY_REAL < REAL.
Rank(v) ==
    CASE v = "FAKE" -> 1
      [] v = "LIKELY_FAKE" -> 2
      [] v = "UNCERTAIN" -> 3
      [] v = "LIKELY_REAL" -> 4
      [] v = "REAL" -> 5

\* The arm that decides the analysis being resolved at source score s.
BranchAt(s) ==
    Branch(s, aiAnalysis.verdict, AiConfidence(aiAnalysis),
           HybridTable[aiPredictionScore][s])

Overridden(b) == b \in {"likelyReal", "likelyFake"}

\* C23 as stated: with the label and the confidence fixed, a higher source
\* score never gives a lower final verdict.
C23_VerdictMonotoneInSourceScore ==
    Responded /\ TypedConfidence =>
        \A s2 \in sourceScore..MaxScore :
            Rank(result.final_verdict) <= Rank(FinalVerdict(BranchAt(s2)))

\* C23 away from the override boundaries: with the label and the confidence
\* fixed, a higher source score never gives a lower final verdict when both
\* verdicts are decided the same way, by the thresholds on the hybrid score
\* or by an override; this covers every confidence of 70 or more and every
\* label other than REAL and FAKE.
C23_MonotoneWithinOneRule ==
    Responded /\ TypedConfidence =>
        /\ \A s2 \in sourceScore..MaxScore :
              Overridden(branch) = Overridden(BranchAt(s2)) =>
                  Rank(result.final_verdict) <= Rank(FinalVerdict(BranchAt(s2)))
        /\ aiAnalysis.confidence >= 70 \/ aiAnalysis.verdict \notin {"REAL", "FAKE"} =>
              \A s2 \in sourceScore..MaxScore : ~Overridden(BranchAt(s2))

\* REAL/90 is UNCERTAIN from a source scored 0 and REAL from one scored 100.
C23_Witness ==
    /\ Responded
    /\ aiAnalysis = [verdict |-> "REAL", hasConfidence |-> TRUE, confidence |-> 90]
    /\ sourceScore = 0
    /\ result.final_verdict = "UNCERTAIN"
    /\ FinalVerdict(BranchAt(MaxScore)) = "REAL"

\* C24 as stated: for every confidence in 0..100, label REAL with a source
\* score of 80 or more never ends in FAKE or LIKELY_FAKE, and label FAKE with
\* a source score below 40 never ends in REAL or LIKELY_REAL.
C24_AgreeingSignalsNotContradicted ==
    Responded /\ TypedConfidence =>
        /\ aiAnalysis.verdict = "REAL" /\ sourceScore >= 80 =>
              result.final_verdict \notin {"FAKE", "LIKELY_FAKE"}
        /\ aiAnalysis.verdict = "FAKE" /\ sourceScore < 40 =>
              result.final_verdict \notin {"REAL", "LIKELY_REAL"}

\* C24 for confidences that are not low: label REAL with a source score of
\* 80 or more never ends in LIKELY_FAKE, and not in FAKE when the confidence
\* is at least 16; label FAKE with a source score below 40 never ends in
\* LIKELY_REAL, and not in REAL when the confidence is at least 24.
\* The bounds are tight: REAL/15 ends in FAKE at source score 80 and FAKE/23
\* ends in REAL at source score 39.
C24_AgreeingSignalsAboveLowConfidence ==
    /\ Responded /\ TypedConfidence =>
          /\ aiAnalysis.verdict = "REAL" /\ sourceScore >= 80 =>
                /\ result.final_verdict # "LIKELY_FAKE"
                /\ aiAnalysis.confidence >= 16 =>
                      result.final_verdict # "FAKE"
          /\ aiAnalysis.verdict = "FAKE" /\ sourceScore < 40 =>
                /\ result.final_verdict # "LIKELY_REAL"
                /\ aiAnalysis.confidence >= 24 =>
                      result.final_verdict # "REAL"
    /\ FinalVerdict(Branch(80, "REAL", 15, HybridTable[15][80])) = "FAKE"
    /\ FinalVerdict(Branch(39, "FAKE", 23, HybridTable[77][39])) = "REAL"

\* REAL/16 from a source scored 80 blends to 35.2 and is UNCERTAIN.
C24_Witness ==
    /\ Responded
    /\ aiAnalysis = [verdict |-> "REAL", hasConfidence |-> TRUE, confidence |-> 16]
    /\ sourceScore = 80
    /\ result.hybrid_score = 35
    /\ result.final_verdict = "UNCERTAIN"

\* The label of the Combined Score card of AIResultSection, from
\* result.hybrid_score.
CredibilityLabel(score) ==
    IF score >= 65 THEN "Credible"
    ELSE IF score >= 35 THEN "Uncertain"
    ELSE "Not Credible"

\* C29: when no override fired, the label of the Combined Score card is
\* "Credible" exactly when final_verdict is REAL, "Not Credible" exactly
\* when it is FAKE, and "Uncertain" exactly when it is UNCERTAIN.
C29_LabelAgreesWithVerdict ==
    Responded /\ TypedConfidence /\ NoOverride =>
        /\ CredibilityLabel(result.hybrid_score) = "Credible"
              <=> result.final_verdict = "REAL"
        /\ CredibilityLabel(result.hybrid_score) = "Not Credible"
              <=> result.final_verdict = "FAKE"
        /\ CredibilityLabel(result.hybrid_score) = "Uncertain"
              <=> result.final_verdict = "UNCERTAIN"

\* ------------------------------------------------------------------------
\* The credibility lookup on its own
\* ------------------------------------------------------------------------

\* The locals of the verdict resolution before it runs.
ResolveLocalsIdle ==
    /\ aiAnalysis = [verdict |-> "UNCERTAIN", hasConfidence |-> FALSE, confidence |-> 0]
    /\ sourceScore = 0
    /\ aiPredictionScore = 0
    /\ hybridScore = Dbl(0)
    /\ branch = "none"
    /\ result = NoResult

\* No request is being resolved.
ResolveIdle == pc = "idle" /\ ResolveLocalsIdle

RegistryKeys ==
    {TrustedSourcesInit[i].key : i \in DOMAIN TrustedSourcesInit}
        \cup {UnreliableSourcesInit[i].key : i \in DOMAIN UnreliableSourcesInit}

\* s up to its first dot.
FirstLabel(s) ==
    IF \E i \in DOMAIN s : s[i] = "."
    THEN SubSeq(s, 1, (CHOOSE i \in DOMAIN s :
                          s[i] = "." /\ \A j \in 1..(i - 1) : s[j] # ".") - 1)
    ELSE s

\* Hostnames of no registered site; "BBC.com" is what the text fallback of
\* extractDomain returns for an upper-case mention.
OtherHosts == {
    <<"e", "x", "a", "m", "p", "l", "e", ".", "o", "r", "g">>,
    <<"n", "e", "w", "s", ".", "e", "x", "a", "m", "p", "l", "e", ".", "n", "e", "t">>,
    <<"B", "B", "C", ".", "c", "o", "m">>,
    <<"l", "o", "c", "a", "l", "h", "o", "s", "t">>,
    <<"c", "o", "m">>,
    <<"x">>,
    << >>}

\* The domains looked up: null, every registry key, a subdomain and a
\* look-alike superstring of each, its first label, the names Object.prototype
\* defines, and unregistered hosts.
LookupDomains ==
    {Null} \cup
    {Some(d) : d \in
        RegistryKeys
        \cup {<<"n", "e", "w", "s", ".">> \o k : k \in RegistryKeys}
        \cup {k \o <<".", "e", "v", "i", "l", ".", "o", "r", "g">> : k \in RegistryKeys}
        \cup {FirstLabel(k) : k \in RegistryKeys}
        \cup ObjectPrototypeKeys
        \cup OtherHosts}

InitLookup ==
    /\ ResolveIdle
    /\ HandlerIdle
    /\ PageIdle
    /\ UiIdle
    /\ TRUSTED_SOURCES = TrustedSourcesInit
    /\ UNRELIABLE_SOURCES = UnreliableSourcesInit
    /\ domain \in LookupDomains
    /\ sourceInfo = NoSourceInfo
    /\ returned = -1

\* const sourceInfo = getSourceCredibility(d);
LookupOf(d) ==
    /\ domain' = d
    /\ sourceInfo' = GetSourceCredibility(TRUSTED_SOURCES, UNRELIABLE_SOURCES, d)
    /\ returned' = ReturnedObject(TRUSTED_SOURCES, UNRELIABLE_SOURCES, d)
    /\ UNCHANGED <<TRUSTED_SOURCES, UNRELIABLE_SOURCES, resolveVars, handlerVars, pageVars,
                   uiVars>>

Lookup == returned = -1 /\ LookupOf(domain)

NextLookup == Lookup

SpecLookup == InitLookup /\ [][NextLookup]_vars

Looked == returned # -1

\* ------------------------------------------------------------------------
\* Properties of the credibility lookup
\* ------------------------------------------------------------------------

HasField(r, f) == f \in DOMAIN r

TrustedKeys == {TrustedSourcesInit[i].key : i \in DOMAIN TrustedSourcesInit}

UnreliableKeys == {UnreliableSourcesInit[i].key : i \in DOMAIN UnreliableSourcesInit}

\* d equals a key of either table, or is a substring or a superstring of a
\* trusted key.
MatchesRegistry(d) ==
    d \in RegistryKeys \/ \E k \in TrustedKeys : PartialMatch(d, k)

ExampleOrg == <<"e", "x", "a", "m", "p", "l", "e", ".", "o", "r", "g">>

C16_ScoreAndKnown ==
    Looked /\ domain # Null =>
        /\ HasField(sourceInfo, "score")
        /\ sourceInfo.score \in 0..MaxScore
        /\ sourceInfo.known => MatchesRegistry(domain[1])

\* C17: isReliable = true implies a type other than satire, conspiracy and
\* misinformation and a score of at least 75; an exact unreliable match is
\* returned with isReliable false, known true, the entry's score (at most 20)
\* and its reason as the type.
C17_ReliableFloor ==
    Looked =>
        /\ sourceInfo.isReliable =>
              /\ HasField(sourceInfo, "type") =>
                    sourceInfo.type \notin {"satire", "conspiracy", "misinformation"}
              /\ HasField(sourceInfo, "score")
              /\ sourceInfo.score >= 75
        /\ \A i \in DOMAIN UnreliableSourcesInit :
              domain = Some(UnreliableSourcesInit[i].key) =>
                  /\ ~sourceInfo.isReliable
                  /\ sourceInfo.known
                  /\ sourceInfo.score = UnreliableSourcesInit[i].value.score
                  /\ sourceInfo.score <= 20
                  /\ sourceInfo.type = UnreliableSourcesInit[i].value.reason

\* A registry in which the rules overlap: "ab.com" is a trusted key, its
\* substring "b.co" an unreliable key, "news.ab.com" a second trusted key.
OverlapTrusted == <<
    [key |-> <<"a", "b", ".", "c", "o", "m">>,
     value |-> [name |-> <<"A", "B">>, score |-> 90, type |-> "mainstream"]],
    [key |-> <<"n", "e", "w", "s", ".", "a", "b", ".", "c", "o", "m">>,
     value |-> [name |-> <<"A", "B", " ", "N", "e", "w", "s">>, score |-> 80,
                type |-> "mainstream"]]>>

OverlapUnreliable == <<
    [key |-> <<"b", ".", "c", "o">>,
     value |-> [name |-> <<"B">>, score |-> 10, reason |-> "satire"]]>>

\* C20: the rules apply in strict priority order: an exact trusted match
\* wins over everything, an exact unreliable match over any partial match,
\* a partial match is used only when neither exact match exists, and the
\* unknown result is returned only when no rule matched.
C20_PriorityOrder ==
    /\ Looked /\ domain # Null =>
          LET d  == domain[1]
              ti == OwnIndex(TrustedSourcesInit, d)
              ui == OwnIndex(UnreliableSourcesInit, d)
              pi == PartialIndex(TrustedSourcesInit, d)
          IN  /\ ti # 0 =>
                    sourceInfo = TrustedAssessment(TrustedSourcesInit[ti].value)
              /\ ti = 0 /\ ui # 0 =>
                    sourceInfo = UnreliableAssessment(UnreliableSourcesInit[ui].value)
              /\ sourceInfo.isReliable /\ HasField(sourceInfo, "name") /\ ti = 0 =>
                    /\ ui = 0
                    /\ pi # 0
                    /\ sourceInfo = TrustedAssessment(TrustedSourcesInit[pi].value)
              /\ ~sourceInfo.known /\ d # << >> => ti = 0 /\ ui = 0 /\ pi = 0
    /\ GetSourceCredibility(OverlapTrusted, OverlapUnreliable,
                            Some(OverlapTrusted[2].key))
           = TrustedAssessment(OverlapTrusted[2].value)
    /\ GetSourceCredibility(OverlapTrusted, OverlapUnreliable,
                            Some(OverlapUnreliable[1].key))
           = UnreliableAssessment(OverlapUnreliable[1].value)
    /\ GetSourceCredibility(OverlapTrusted, OverlapUnreliable,
                            Some(<<"b", ".", "c">>))
           = TrustedAssessment(OverlapTrusted[1].value)

C20_Witness ==
    /\ Looked
    /\ domain = Some(<<"n", "e", "w", "s", ".">> \o TrustedSourcesInit[25].key)
    /\ OwnIndex(TrustedSourcesInit, domain[1]) = 0
    /\ OwnIndex(UnreliableSourcesInit, domain[1]) = 0
    /\ sourceInfo = TrustedAssessment(TrustedSourcesInit[25].value)

\* d is x.k for a non-empty x.
SubdomainOf(d, k) ==
    /\ Len(d) > Len(k) + 1
    /\ SubSeq(d, Len(d) - Len(k), Len(d)) = <<".">> \o k

\* C25: a subdomain x.k of a key k of UNRELIABLE_SOURCES is answered like k:
\* known, not reliable, with k's score.
C25_UnreliableSubdomain ==
    Looked /\ domain # Null =>
        \A i \in DOMAIN UnreliableSourcesInit :
            SubdomainOf(domain[1], UnreliableSourcesInit[i].key) =>
                /\ sourceInfo.known
                /\ ~sourceInfo.isReliable
                /\ sourceInfo.score = UnreliableSourcesInit[i].value.score

\* ------------------------------------------------------------------------
\* Lookups one after another, and a caller that writes to what it was given
\* ------------------------------------------------------------------------

InitRegistry == ResolveIdle /\ LookupIdle /\ HandlerIdle /\ PageIdle /\ UiIdle

\* A request looks a domain up.
Request == \E d \in LookupDomains : LookupOf(d)

\* The scores a caller writes into a returned assessment.
ChangedScores == {0, 100}

\* sourceInfo.score = v, by whoever holds the returned object.  The write
\* lands in a table entry exactly when the returned object is that entry.
ChangeReturned ==
    /\ returned # -1
    /\ HasField(sourceInfo, "score")
    /\ \E v \in ChangedScores :
          /\ sourceInfo' = [sourceInfo EXCEPT !.score = v]
          /\ TRUSTED_SOURCES' =
                IF returned > 0
                THEN [TRUSTED_SOURCES EXCEPT ![returned].value.score = v]
                ELSE TRUSTED_SOURCES
    /\ UNCHANGED <<UNRELIABLE_SOURCES, domain, returned, resolveVars, handlerVars, pageVars,
                   uiVars>>

NextRegistry == Request \/ ChangeReturned

SpecRegistry == InitRegistry /\ [][NextRegistry]_vars

\* C19: after any sequence of lookups and of writes to returned assessments
\* both tables hold exactly their initial entries, every returned object is
\* a new one, and a lookup of any domain gives what it gave at start.
C19_RegistryImmutable ==
    /\ TRUSTED_SOURCES = TrustedSourcesInit
    /\ UNRELIABLE_SOURCES = UnreliableSourcesInit
    /\ Looked => returned = 0
    /\ \A d \in LookupDomains :
          GetSourceCredibility(TRUSTED_SOURCES, UNRELIABLE_SOURCES, d)
              = GetSourceCredibility(TrustedSourcesInit, UnreliableSourcesInit, d)

\* The assessment returned for "bbc.com" has been overwritten by its holder.
C19_Witness ==
    /\ Looked
    /\ domain = Some(<<"b", "b", "c", ".", "c", "o", "m">>)
    /\ sourceInfo.score = 0
    /\ TRUSTED_SOURCES[OwnIndex(TRUSTED_SOURCES, domain[1])].value.score = 92

\* ------------------------------------------------------------------------
\* Properties of the partial-match loop
\* ------------------------------------------------------------------------

\* The assessment a partial match with the i-th trusted entry must give.
PartialExpected(i) ==
    [known |-> TRUE, isReliable |-> TRUE,
     name |-> TrustedSourcesInit[i].value.name,
     score |-> TrustedSourcesInit[i].value.score,
     type |-> TrustedSourcesInit[i].value.type]

\* d is a key of neither table, and the i-th trusted key is the first one in
\* insertion order that contains d or is contained in it.
FirstPartialKey(d, i) ==
    /\ d \notin RegistryKeys
    /\ PartialMatch(d, TrustedSourcesInit[i].key)
    /\ \A j \in 1..(i - 1) : ~PartialMatch(d, TrustedSourcesInit[j].key)

\* For every domain looked up, the place of the trusted key FirstPartialKey
\* names, or 0 when there is none.
FirstPartial ==
    [d \in {x[1] : x \in LookupDomains \ {Null}} |->
        IF \E i \in DOMAIN TrustedSourcesInit : FirstPartialKey(d, i)
        THEN CHOOSE i \in DOMAIN TrustedSourcesInit : FirstPartialKey(d, i)
        ELSE 0]

\* C21 as stated: every lookup, the first or a repeated one, of a domain
\* without an exact match that contains or is contained in a trusted key
\* returns known, isReliable and the name, score and type of the first such
\* key in insertion order.
C21_PartialMatchFirstKey ==
    [][domain' # Null /\ LookupOf(domain') /\ FirstPartial[domain'[1]] # 0 =>
          sourceInfo' = PartialExpected(FirstPartial[domain'[1]])]_vars

\* C21 for non-empty domains: every lookup, the first or a repeated one, of
\* a non-empty domain without an exact match that contains or is contained
\* in a trusted key returns known, isReliable and the name, score and type
\* of the first such key in insertion order; the empty string, which every
\* key contains, is answered as unknown.
C21_NonEmptyPartialMatchFirstKey ==
    [][domain' # Null /\ LookupOf(domain') =>
          /\ domain' # Some(<< >>) /\ FirstPartial[domain'[1]] # 0 =>
                sourceInfo' = PartialExpected(FirstPartial[domain'[1]])
          /\ domain' = Some(<< >>) => sourceInfo' = NullAssessment]_vars

\* "com", a part of most keys, has been answered from the first entry of the
\* trusted table although later entries contain it too.
C21_Witness ==
    /\ Looked
    /\ domain = Some(<<"c", "o", "m">>)
    /\ FirstPartialKey(domain[1], 1)
    /\ PartialMatch(domain[1], TrustedSourcesInit[16].key)
    /\ sourceInfo = PartialExpected(1)

\* ------------------------------------------------------------------------
\* extractDomain on its own
\* ------------------------------------------------------------------------

\* Prose ahead of the URL: none, or "Read ".
Prefixes == {
    << >>,
    <<"R", "e", "a", "d", " ">>}

\* The scheme as written: none for a bare host.
Schemes == {
    << >>,
    <<"h", "t", "t", "p", "s", ":", "/", "/">>,
    <<"h", "t", "t", "p", ":", "/", "/">>}

\* A leading "www." label, or none.
Wwws == {
    << >>,
    <<"w", "w", "w", ".">>}

\* The host after any www. label.
Hosts == {
    <<"b", "b", "c", ".", "c", "o", "m">>,
    <<"b", "b", "c", ".", "c", "o", ".", "u", "k">>,
    <<"B", "B", "C", ".", "c", "o", "m">>,
    <<"n", "e", "w", "s", ".", "e", "k", "a", "n", "t", "i", "p", "u", "r", ".", "c", "o", "m">>,
    <<"t", "h", "e", "o", "n", "i", "o", "n", ".", "c", "o", "m">>}

\* The path.
Paths == {
    << >>,
    <<"/", "n", "e", "w", "s", "/", "x">>}

\* Prose after the URL: none, or " today".
Suffixes == {
    << >>,
    <<" ", "t", "o", "d", "a", "y">>}

\* The input written from its parts.
Compose(prefix, scheme, www, host, path, suffix) ==
    prefix \o scheme \o www \o host \o path \o suffix

\* Well-formed absolute URLs, bare hosts, and prose containing either.
HostInputs ==
    {Compose(prefix, scheme, www, host, path, suffix) :
        prefix \in Prefixes, scheme \in Schemes, www \in Wwws,
        host \in Hosts, path \in Paths, suffix \in Suffixes}

\* Inputs that contain no host.
NoHostInputs == {
    << >>,
    <<"n", "o", "t", " ", "a", " ", "u", "r", "l", " ", "a", "t", " ", "a", "l", "l">>,
    <<"b", "r", "e", "a", "k", "i", "n", "g", " ", "n", "e", "w", "s">>,
    <<" ">>}

ExtractInputs == HostInputs \cup NoHostInputs

InitExtract ==
    /\ pc = "extractDomain"
    /\ ResolveLocalsIdle
    /\ LookupIdle
    /\ PageIdle
    /\ UiIdle
    /\ req = NoRequest
    /\ LOVABLE_API_KEY = TRUE
    /\ contentToAnalyze = << >>
    /\ urlOrText \in ExtractInputs
    /\ gateway = NoGateway
    /\ response = NoResponse

\* const domain = extractDomain(urlOrText);
Extract ==
    /\ pc = "extractDomain"
    /\ domain' = ExtractDomain(urlOrText)
    /\ pc' = "extracted"
    /\ UNCHANGED <<aiAnalysis, sourceScore, aiPredictionScore, hybridScore,
                   branch, result, TRUSTED_SOURCES, UNRELIABLE_SOURCES,
                   sourceInfo, returned, req, LOVABLE_API_KEY,
                   contentToAnalyze, urlOrText, gateway, response, pageVars,
                   uiVars>>

NextExtract == Extract

SpecExtract == InitExtract /\ [][NextExtract]_vars

Extracted == pc = "extracted"

\* C18: extractDomain returns the host of the URL or bare host in its input
\* lower-cased, without a leading "www." and with all its labels, whether
\* the input is an absolute URL, a bare host or prose containing one, and
\* null when the input contains no host.
C18_NormalizedHostname ==
    Extracted =>
        /\ \A prefix \in Prefixes, scheme \in Schemes, www \in Wwws,
              host \in Hosts, path \in Paths, suffix \in Suffixes :
              urlOrText = Compose(prefix, scheme, www, host, path, suffix)
                  => domain = Some(ToLowerCase(host))
        /\ urlOrText \in NoHostInputs => domain = Null

\* ------------------------------------------------------------------------
\* The handler, from the request to the response
\* ------------------------------------------------------------------------

\* A field of the request body as JSON gives it: absent (or null), a string,
\* or a truthy value that is no string, such as the number 123.
Absent == [kind |-> "absent"]

Str(s) == [kind |-> "string", chars |-> s]

NotAString == [kind |-> "number"]

\* JavaScript truthiness of such a value.
Truthy(v) == v.kind = "number" \/ (v.kind = "string" /\ v.chars # << >>)

\* a || b
Or(a, b) == IF Truthy(a) THEN a ELSE b

\* The strings sent as url: every registry key as a bare host, and URLs,
\* prose and a host that is a name of Object.prototype.
UrlStrings ==
    RegistryKeys \cup {
    <<"h", "t", "t", "p", "s", ":", "/", "/", "w", "w", "w", ".", "b", "b", "c", ".", "c", "o", "m", "/", "n", "e", "w", "s", "/", "x">>,
    <<"b", "b", "c", ".", "c", "o", ".", "u", "k">>,
    <<"n", "o", "t", " ", "a", " ", "u", "r", "l", " ", "a", "t", " ", "a", "l", "l">>,
    <<"R", "e", "a", "d", " ", "h", "t", "t", "p", "s", ":", "/", "/", "w", "w", "w", ".", "b", "b", "c", ".", "c", "o", ".", "u", "k", "/", "n", "e", "w", "s", "/", "x">>,
    <<"h", "t", "t", "p", "s", ":", "/", "/", "c", "o", "n", "s", "t", "r", "u", "c", "t", "o", "r">>,
    <<"e", "x", "a", "m", "p", "l", "e", ".", "o", "r", "g">>,
    <<"h", "t", "t", "p", "s", ":", "/", "/", "n", "e", "w", "s", ".", "e", "k", "a", "n", "t", "i", "p", "u", "r", ".", "c", "o", "m", "/", "x">>,
    <<"b", "r", "e", "a", "k", "i", "n", "g", " ", "n", "e", "w", "s">>}

RequestUrls == {Absent, Str(<< >>), NotAString} \cup {Str(u) : u \in UrlStrings}

RequestSources == {Absent, Str(<< >>), Str(<<"b", "b", "c", ".", "c", "o", "m">>)}

RequestTexts == {Absent, Str(<< >>), Str(<<"n", "e", "w", "s">>), NotAString}

\* A preflight, a POST whose body is not JSON, and POSTs with a JSON body.
Requests ==
    {[method |-> "OPTIONS"], [method |-> "POST", json |-> FALSE]}
    \cup [method : {"POST"}, json : {TRUE}, text : RequestTexts,
          url : RequestUrls, source : RequestSources]

\* The confidences a parsed answer carries here.
SampleConfidences == {0, 50, 69, 70, 100}

Recommendations == {"", "Check the original report."}

\* What JSON.parse returns for the scorer's answer.
ScorerAnalyses ==
    [verdict : Verdicts, hasConfidence : {TRUE}, confidence : SampleConfidences,
     recommendation : Recommendations]
    \cup [verdict : Verdicts, hasConfidence : {FALSE}, confidence : {0},
          recommendation : Recommendations]

\* fetch rejects.
NetworkError == [kind |-> "networkError"]

\* !response.ok, with the statuses the handler tells apart and two others.
NotOkStatuses == {429, 402, 500, 503}

\* response.ok, but response.json() throws.
BodyNotJson == [kind |-> "ok", body |-> "notJson"]

\* response.ok with a JSON body whose content is missing, holds no {...},
\* or holds one that JSON.parse rejects.
Unparseable ==
    {[kind |-> "ok", body |-> b] : b \in {"noContent", "noJsonObject", "malformedJson"}}

InitHandler ==
    /\ pc = "serve"
    /\ ResolveLocalsIdle
    /\ LookupIdle
    /\ PageIdle
    /\ UiIdle
    /\ req \in Requests
    /\ LOVABLE_API_KEY \in BOOLEAN
    /\ contentToAnalyze = << >>
    /\ urlOrText = << >>
    /\ gateway = NoGateway
    /\ response = NoResponse

\* The catch block: status 500, the error's message, fallback: true.
CaughtError(message) ==
    [status |-> 500, kind |-> "error", error |-> message, fallback |-> TRUE]

\* if (req.method === "OPTIONS") return new Response(null, ...)
ServeOptions ==
    /\ pc = "serve"
    /\ req.method = "OPTIONS"
    /\ response' = [status |-> 200, kind |-> "preflight"]
    /\ pc' = "responded"
    /\ UNCHANGED <<aiAnalysis, sourceScore, aiPredictionScore, hybridScore,
                   branch, result, lookupVars, req, LOVABLE_API_KEY,
                   contentToAnalyze, urlOrText, gateway, pageVars, uiVars>>

\* await req.json() throws, or the key is not configured.
ServeThrowsEarly ==
    /\ pc = "serve"
    /\ req.method = "POST"
    /\ ~req.json \/ ~LOVABLE_API_KEY
    /\ response' = CaughtError(IF ~req.json THEN "Unexpected token"
                               ELSE "LOVABLE_API_KEY is not configured")
    /\ pc' = "responded"
    /\ UNCHANGED <<aiAnalysis, sourceScore, aiPredictionScore, hybridScore,
                   branch, result, lookupVars, req, LOVABLE_API_KEY,
                   contentToAnalyze, urlOrText, gateway, pageVars, uiVars>>

\* const sourceUrl = url || source || "";
SourceUrl(r) == Or(r.url, Or(r.source, Str(<< >>)))

\* extractDomain(sourceUrl) with a sourceUrl that is no string: startsWith
\* is not a function, and in the catch block neither is match.
ServeUrlThrows ==
    /\ pc = "serve"
    /\ req.method = "POST" /\ req.json /\ LOVABLE_API_KEY
    /\ SourceUrl(req).kind # "string"
    /\ response' = CaughtError("urlOrText.match is not a function")
    /\ pc' = "responded"
    /\ UNCHANGED <<aiAnalysis, sourceScore, aiPredictionScore, hybridScore,
                   branch, result, lookupVars, req, LOVABLE_API_KEY,
                   contentToAnalyze, urlOrText, gateway, pageVars, uiVars>>

\* The domain is extracted and looked up; contentToAnalyze.slice(0, 4000)
\* then throws for a text that is no string.
ServeTextThrows ==
    /\ pc = "serve"
    /\ req.method = "POST" /\ req.json /\ LOVABLE_API_KEY
    /\ SourceUrl(req).kind = "string"
    /\ Or(req.text, Str(<< >>)).kind # "string"
    /\ urlOrText' = SourceUrl(req).chars
    /\ domain' = ExtractDomain(urlOrText')
    /\ sourceInfo' = GetSourceCredibility(TRUSTED_SOURCES, UNRELIABLE_SOURCES, domain')
    /\ returned' = ReturnedObject(TRUSTED_SOURCES, UNRELIABLE_SOURCES, domain')
    /\ response' = CaughtError("contentToAnalyze.slice is not a function")
    /\ pc' = "responded"
    /\ UNCHANGED <<aiAnalysis, sourceScore, aiPredictionScore, hybridScore,
                   branch, result, TRUSTED_SOURCES, UNRELIABLE_SOURCES, req,
                   LOVABLE_API_KEY, contentToAnalyze, gateway, pageVars,
                   uiVars>>

\* Lines 118-206: the source is assessed, the prompts are built and the
\* gateway is called.
ServeCallsGateway ==
    /\ pc = "serve"
    /\ req.method = "POST" /\ req.json /\ LOVABLE_API_KEY
    /\ SourceUrl(req).kind = "string"
    /\ Or(req.text, Str(<< >>)).kind = "string"
    /\ contentToAnalyze' = Or(req.text, Str(<< >>)).chars
    /\ urlOrText' = SourceUrl(req).chars
    /\ domain' = ExtractDomain(urlOrText')
    /\ sourceInfo' = GetSourceCredibility(TRUSTED_SOURCES, UNRELIABLE_SOURCES, domain')
    /\ returned' = ReturnedObject(TRUSTED_SOURCES, UNRELIABLE_SOURCES, domain')
    /\ pc' = "fetch"
    /\ UNCHANGED <<aiAnalysis, sourceScore, aiPredictionScore, hybridScore,
                   branch, result, TRUSTED_SOURCES, UNRELIABLE_SOURCES, req,
                   LOVABLE_API_KEY, gateway, response, pageVars, uiVars>>

\* fetch rejects, or the body of an OK answer is not JSON: the catch block.
FetchThrows ==
    /\ pc = "fetch"
    /\ gateway' \in {NetworkError, BodyNotJson}
    /\ response' = CaughtError(IF gateway' = NetworkError THEN "error sending request"
                               ELSE "Unexpected token")
    /\ pc' = "responded"
    /\ UNCHANGED <<aiAnalysis, sourceScore, aiPredictionScore, hybridScore,
                   branch, result, lookupVars, req, LOVABLE_API_KEY,
                   contentToAnalyze, urlOrText, pageVars, uiVars>>

\* GatewayNotOk with every status thrown to the catch block.
GatewayNotOk_AllCaught ==
    /\ pc = "fetch"
    /\ \E status \in NotOkStatuses :
          /\ gateway' = [kind |-> "status", status |-> status]
          /\ response' = CaughtError("AI analysis failed")
    /\ pc' = "responded"
    /\ UNCHANGED <<aiAnalysis, sourceScore, aiPredictionScore, hybridScore,
                   branch, result, lookupVars, req, LOVABLE_API_KEY,
                   contentToAnalyze, urlOrText, pageVars, uiVars>>

\* GatewayNotOk with the quota answer 402 thrown to the catch block.
GatewayNotOk_QuotaCaught ==
    /\ pc = "fetch"
    /\ \E status \in NotOkStatuses :
          /\ gateway' = [kind |-> "status", status |-> status]
          /\ response' =
                IF status = 429
                THEN [status |-> 429, kind |-> "error",
                      error |-> "Rate limit exceeded. Please try again later."]
                ELSE CaughtError("AI analysis failed")
    /\ pc' = "responded"
    /\ UNCHANGED <<aiAnalysis, sourceScore, aiPredictionScore, hybridScore,
                   branch, result, lookupVars, req, LOVABLE_API_KEY,
                   contentToAnalyze, urlOrText, pageVars, uiVars>>

\* if (!response.ok): 429 and 402 are answered in kind, anything else is
\* thrown to the catch block.
GatewayNotOk ==
    /\ pc = "fetch"
    /\ \E status \in NotOkStatuses :
          /\ gateway' = [kind |-> "status", status |-> status]
          /\ response' =
                IF status = 429
                THEN [status |-> 429, kind |-> "error",
                      error |-> "Rate limit exceeded. Please try again later."]
                ELSE IF status = 402
                THEN [status |-> 402, kind |-> "error",
                      error |-> "AI usage limit reached. Please add credits."]
                ELSE CaughtError("AI analysis failed")
    /\ pc' = "responded"
    /\ UNCHANGED <<aiAnalysis, sourceScore, aiPredictionScore, hybridScore,
                   branch, result, lookupVars, req, LOVABLE_API_KEY,
                   contentToAnalyze, urlOrText, pageVars, uiVars>>

\* FallbackAnalysis with the label of a confident scorer.
FallbackAnalysis_Real ==
    [verdict |-> "REAL", hasConfidence |-> TRUE, confidence |-> 90,
     recommendation |-> "Cross-reference with multiple trusted news sources."]

\* The analysis of the catch (parseError) block.
FallbackAnalysis ==
    [verdict |-> "UNCERTAIN", hasConfidence |-> TRUE, confidence |-> 50,
     recommendation |-> "Cross-reference with multiple trusted news sources."]

\* hybridScore when sourceInfo.score is undefined.
NaN == [nan |-> TRUE]

\* The result whose numbers are NaN or undefined: JSON.stringify writes
\* null for NaN and leaves an undefined field out.
ResultNaN(a, b) ==
    [ai_prediction |-> a.verdict,
     ai_confidence |-> AiConfidence(a),
     ai_weight     |-> AI_WEIGHT,
     source_weight |-> SOURCE_WEIGHT,
     final_verdict |-> FinalVerdict(b),
     is_uncertain  |-> IsUncertain(b)]

\* Lines 259-323 for the analysis a.  With sourceInfo.score undefined every
\* comparison of the chain is false and the last arm runs.
Respond(a) ==
    /\ aiAnalysis' = a
    /\ aiPredictionScore' = AiPredictionScore(a.verdict, AiConfidence(a))
    /\ IF "score" \in DOMAIN sourceInfo
       THEN /\ sourceScore' = sourceInfo.score
            /\ hybridScore' = HybridScore(aiPredictionScore', sourceScore')
            /\ branch' = Branch(sourceScore', a.verdict, AiConfidence(a), hybridScore')
            /\ result' = Result(a, sourceScore', hybridScore', branch')
       ELSE /\ sourceScore' = Null
            /\ hybridScore' = NaN
            /\ branch' = "uncertain"
            /\ result' = ResultNaN(a, branch')
    /\ response' =
          [status |-> 200, kind |-> "verdict",
           recommendation |->
               IF a.recommendation # "" THEN a.recommendation
               ELSE "Always verify important news with multiple trusted sources."]
    /\ pc' = "responded"
    /\ UNCHANGED <<lookupVars, req, LOVABLE_API_KEY, contentToAnalyze,
                   urlOrText, pageVars, uiVars>>

\* The content holds no parseable JSON object: the fallback analysis.
ParseFails ==
    /\ pc = "fetch"
    /\ gateway' \in Unparseable
    /\ Respond(FallbackAnalysis)

\* JSON.parse(jsonMatch[0]) returns the scorer's analysis.
ParseSucceeds ==
    /\ pc = "fetch"
    /\ \E a \in ScorerAnalyses :
          /\ gateway' = [kind |-> "ok", body |-> "analysis"]
          /\ Respond(a)

NextHandler ==
    \/ ServeOptions
    \/ ServeThrowsEarly
    \/ ServeUrlThrows
    \/ ServeTextThrows
    \/ ServeCallsGateway
    \/ FetchThrows
    \/ GatewayNotOk
    \/ ParseFails
    \/ ParseSucceeds

SpecHandler == InitHandler /\ [][NextHandler]_vars

\* ------------------------------------------------------------------------
\* Properties of the handler
\* ------------------------------------------------------------------------

HandlerResponded == pc = "responded" /\ req.method = "POST"

FinalVerdicts == {"REAL", "FAKE", "LIKELY_REAL", "LIKELY_FAKE", "UNCERTAIN"}

\* The gateway call failed: no connection, a rate-limit or quota answer, or
\* an answer that cannot be parsed.
UpstreamFailure ==
    \/ gateway = NetworkError
    \/ gateway.kind = "status" /\ gateway.status \in {429, 402}
    \/ gateway = BodyNotJson
    \/ gateway \in Unparseable

\* The response carries a verdict resolved from the neutral placeholder.
PlaceholderVerdict ==
    /\ response.kind = "verdict"
    /\ result.ai_prediction = "UNCERTAIN"
    /\ result.ai_confidence = 50
    /\ result.final_verdict \in FinalVerdicts

\* C11: every upstream failure of the content scorer (network failure,
\* rate-limit or quota answer, unparseable answer) is turned into the
\* placeholder UNCERTAIN / 50 and the handler returns a verdict result.
C11_FailureBecomesPlaceholder ==
    HandlerResponded /\ UpstreamFailure => PlaceholderVerdict

\* C11, amended: only an OK answer whose content holds no parseable JSON
\* object is turned into the placeholder UNCERTAIN / 50 and resolved to a
\* verdict; a failed connection, an OK answer whose body is not JSON and a
\* non-OK status end in an error response (429, 402, otherwise 500 with
\* fallback = true) that carries no verdict.
C11_OnlyUnparseableContentBecomesPlaceholder ==
    HandlerResponded =>
        /\ gateway \in Unparseable => PlaceholderVerdict
        /\ gateway \in {NetworkError, BodyNotJson} =>
              /\ response.kind = "error"
              /\ response.status = 500
              /\ response.fallback
              /\ result = NoResult
        /\ gateway.kind = "status" =>
              /\ response.kind = "error"
              /\ response.status =
                    IF gateway.status \in {429, 402} THEN gateway.status ELSE 500
              /\ gateway.status \notin {429, 402} => response.fallback
              /\ result = NoResult

C11_Witness ==
    /\ HandlerResponded
    /\ gateway = [kind |-> "status", status |-> 429]
    /\ response.status = 429
    /\ response.kind = "error"
    /\ result = NoResult

\* C12: when the gateway answers OK but the content holds no parseable JSON
\* object, the response has ai_prediction UNCERTAIN, ai_confidence 50,
\* final_verdict UNCERTAIN, is_uncertain true and a non-empty
\* recommendation, whatever the source assessment.
C12_UnparseableIsUncertain ==
    HandlerResponded /\ gateway \in Unparseable =>
        /\ response.kind = "verdict"
        /\ result.ai_prediction = "UNCERTAIN"
        /\ result.ai_confidence = 50
        /\ result.final_verdict = "UNCERTAIN"
        /\ result.is_uncertain
        /\ response.recommendation # ""

\* The lowest registry score, 10, blends to 38.
C12_Witness ==
    /\ HandlerResponded
    /\ gateway \in Unparseable
    /\ domain = Some(<<"t", "h", "e", "o", "n", "i", "o", "n", ".", "c", "o", "m">>)
    /\ sourceInfo.score = 10
    /\ result.hybrid_score = 38
    /\ result.final_verdict = "UNCERTAIN"

\* A url or source from which no domain can be determined: missing, empty,
\* prose without a host, or a value that is no string.
NoDomainValues ==
    {Absent, Str(<< >>), NotAString,
     Str(<<"n", "o", "t", " ", "a", " ", "u", "r", "l", " ", "a", "t", " ", "a", "l", "l">>),
     Str(<<"b", "r", "e", "a", "k", "i", "n", "g", " ", "n", "e", "w", "s">>)}

\* The scorer call succeeded: an OK answer with a JSON body.
ScorerSucceeded == gateway.kind = "ok" /\ gateway # BodyNotJson

\* C14: a request whose url and source are missing, empty or without a
\* determinable domain is processed with domain = null and the neutral
\* source assessment and, if the scorer call succeeds, ends in a verdict
\* response, never in an error; a missing text is scored as "".
C14_MalformedInputTolerated ==
    /\ HandlerResponded /\ req.json /\ LOVABLE_API_KEY
    /\ req.url \in NoDomainValues /\ req.source \in NoDomainValues
    /\ req.text.kind # "number"
    =>
        /\ gateway # NoGateway
        /\ domain = Null
        /\ sourceInfo = NullAssessment
        /\ ScorerSucceeded => response.kind = "verdict"
        /\ req.text = Absent => contentToAnalyze = << >>

\* The response is an error object and no verdict was resolved for it:
\* neither the error object nor a computed result holds final_verdict or
\* hybrid_score.
ErrorWithoutVerdict ==
    /\ response.kind = "error"
    /\ HasField(response, "error")
    /\ ~HasField(response, "final_verdict")
    /\ ~HasField(response, "hybrid_score")
    /\ result = NoResult
    /\ branch = "none"

\* C22: a non-OK gateway status is answered with an explicit error and no
\* verdict: 429 with 429, 402 with 402, any other status with 500 and
\* fallback = true; a missing LOVABLE_API_KEY is answered with 500 and
\* fallback = true before any gateway request is sent.
C22_NonOkIsExplicitError ==
    HandlerResponded =>
        /\ gateway.kind = "status" =>
              /\ ErrorWithoutVerdict
              /\ gateway.status = 429 => response.status = 429
              /\ gateway.status = 402 => response.status = 402
              /\ gateway.status \notin {429, 402} =>
                    /\ response.status = 500
                    /\ HasField(response, "fallback")
                    /\ response.fallback
        /\ ~LOVABLE_API_KEY =>
              /\ gateway = NoGateway
              /\ ErrorWithoutVerdict
              /\ response.status = 500
              /\ HasField(response, "fallback")
              /\ response.fallback

\* The gateway answered 503 and the handler answered 500 with fallback.
C22_Witness ==
    /\ HandlerResponded
    /\ gateway = [kind |-> "status", status |-> 503]
    /\ response = CaughtError("AI analysis failed")
    /\ ErrorWithoutVerdict

\* ------------------------------------------------------------------------
\* The Index page
\* ------------------------------------------------------------------------

\* The source scores behind the responses the page receives.
PageSourceScores == {10, 50, 92}

DefaultRecommendation == "Always verify important news with multiple trusted sources."

\* What the page shows of a 200 response of the handler for the analysis a
\* and the source score s.
BodyOf(a, s) ==
    [final_verdict  |-> Result(a, s, HybridScore(AiPredictionScore(a.verdict, AiConfidence(a)), s),
                               Branch(s, a.verdict, AiConfidence(a),
                                      HybridScore(AiPredictionScore(a.verdict, AiConfidence(a)), s))).final_verdict,
     hybrid_score   |-> MathRound(HybridScore(AiPredictionScore(a.verdict, AiConfidence(a)), s)),
     source_name    |-> "Source",
     recommendation |-> IF a.recommendation # "" THEN a.recommendation
                        ELSE DefaultRecommendation]

\* The bodies analyzeNews can resolve with.
VerdictBodies ==
    {BodyOf(a, s) : a \in ScorerAnalyses \cup {FallbackAnalysis},
                    s \in PageSourceScores}

\* The placeholder handleAnalyzeImage sets.
ImagePlaceholder ==
    [final_verdict  |-> "UNCERTAIN",
     hybrid_score   |-> 50,
     source_name    |-> "Image Upload",
     recommendation |-> "For accurate analysis, please provide the news article URL instead of an image."]

InitPage == ResolveIdle /\ LookupIdle /\ HandlerIdle /\ PageIdle /\ UiIdle

\* How many analyzeNews calls are followed at once.
MaxCalls == 2

\* Whether the Analyze button takes a click: disabled={isLoading}.
AnalyzeEnabled_Always == TRUE

AnalyzeEnabled == ~isLoading

\* handleAnalyzeUrl up to its await, from a click on the Analyze button.
ClickAnalyzeUrl ==
    /\ AnalyzeEnabled
    /\ outstanding < MaxCalls
    /\ isLoading' = TRUE
    /\ indexResult' = Null
    /\ call' = "pending"
    /\ outstanding' = outstanding + 1
    /\ UNCHANGED <<toast, resolveVars, lookupVars, handlerVars, uiVars>>

\* analyzeNews resolves: setResult(response), then finally.
AnalyzeFulfils ==
    /\ outstanding > 0
    /\ \E body \in VerdictBodies : indexResult' = Some(body)
    /\ isLoading' = FALSE
    /\ call' = "fulfilled"
    /\ outstanding' = outstanding - 1
    /\ UNCHANGED <<toast, resolveVars, lookupVars, handlerVars, uiVars>>

\* analyzeNews throws (invoke reports an error, or the body has an error
\* field): the catch block shows a toast, then finally.
AnalyzeRejects ==
    /\ outstanding > 0
    /\ toast' = "Analysis Failed"
    /\ isLoading' = FALSE
    /\ call' = "rejected"
    /\ outstanding' = outstanding - 1
    /\ UNCHANGED <<indexResult, resolveVars, lookupVars, handlerVars, uiVars>>

\* handleAnalyzeImage: it awaits nothing, so it runs to its end.
ClickAnalyzeImage ==
    /\ AnalyzeEnabled
    /\ toast' = "Image Analysis"
    /\ indexResult' = Some(ImagePlaceholder)
    /\ isLoading' = FALSE
    /\ UNCHANGED <<call, outstanding, resolveVars, lookupVars, handlerVars, uiVars>>

\* AIResultSection: if (!result) return null;
RendersResult == indexResult # Null

\* handleReset, from the button inside the rendered result.
Reset ==
    /\ RendersResult
    /\ indexResult' = Null
    /\ UNCHANGED <<isLoading, call, toast, outstanding, resolveVars, lookupVars,
                   handlerVars, uiVars>>

NextPage ==
    \/ ClickAnalyzeUrl
    \/ AnalyzeFulfils
    \/ AnalyzeRejects
    \/ ClickAnalyzeImage
    \/ Reset

SpecPage == InitPage /\ [][NextPage]_vars

\* C13: whenever an analysis attempt finishes the page shows a result: after
\* a success the response, after a failure an UNCERTAIN verdict with a
\* recommendation; the result is never left null by a failed attempt.
C13_ResultAfterEveryAttempt ==
    [][call = "pending" /\ call' # "pending" =>
          /\ indexResult' # Null
          /\ call' = "rejected" =>
                /\ indexResult'[1].final_verdict = "UNCERTAIN"
                /\ indexResult'[1].recommendation # ""]_vars

\* C26: isLoading is true exactly while an analyzeNews call is outstanding;
\* at most one call is outstanding, since no analysis can be started while
\* isLoading; no result is shown while isLoading; and when the call settles,
\* by success or by error, isLoading is false again.
C26_LoadingWhileOutstanding ==
    /\ isLoading <=> outstanding > 0
    /\ outstanding <= 1
    /\ isLoading => ~RendersResult
    /\ isLoading => ~AnalyzeEnabled
    /\ call \in {"fulfilled", "rejected"} => ~isLoading

\* A second attempt is outstanding after a failed one.
C26_Witness ==
    /\ isLoading
    /\ outstanding = 1
    /\ call = "pending"
    /\ toast = "Analysis Failed"

\* ------------------------------------------------------------------------
\* The NewsFeed component
\* ------------------------------------------------------------------------

\* How many loadNews calls a behaviour starts.
MaxLoads == 4

InitFeed ==
    ResolveIdle /\ LookupIdle /\ HandlerIdle /\ PageIdle /\ UiIdle

\* loadNews up to its await: setIsLoading(true); setError(null); the call
\* of fetchNepalNews.
LoadNews ==
    /\ started < MaxLoads
    /\ started' = started + 1
    /\ loads' = loads \cup {started'}
    /\ feedIsLoading' = TRUE
    /\ feedError' = Null
    /\ UNCHANGED <<articles, resolveVars, lookupVars, handlerVars, pageVars,
                   inputVars>>

\* The effect of the mount: loadNews(), and setInterval(loadNews, ...).
Mount ==
    /\ ~mounted
    /\ mounted' = TRUE
    /\ LoadNews

\* The interval fires; nothing holds it back while a load is under way.
Tick ==
    /\ mounted
    /\ LoadNews
    /\ UNCHANGED mounted

\* The refresh button: disabled={isLoading}.
ClickRefresh ==
    /\ mounted
    /\ ~feedIsLoading
    /\ LoadNews
    /\ UNCHANGED mounted

\* The Retry button, rendered with the error unless the skeleton is shown;
\* it has no disabled attribute.
ClickRetry ==
    /\ mounted
    /\ ~(feedIsLoading /\ articles = << >>)
    /\ feedError # Null
    /\ LoadNews
    /\ UNCHANGED mounted

\* How a call of fetchNepalNews ends: a feed, a body with success false, or
\* an exception (no connection, a status that is not OK).
Outcomes == {"articles", "noNews", "throws"}

\* The rest of loadNews for the load k: the try block resumes, then finally.
LoadSettles ==
    \E k \in loads : \E outcome \in Outcomes :
        /\ loads' = loads \ {k}
        /\ articles' = IF outcome = "articles" THEN <<k>> ELSE articles
        /\ feedError' =
              CASE outcome = "articles" -> feedError
                [] outcome = "noNews" -> Some("No news available")
                [] outcome = "throws" -> Some("Failed to load news")
        /\ feedIsLoading' = FALSE
        /\ UNCHANGED <<mounted, started, resolveVars, lookupVars, handlerVars,
                       pageVars, inputVars>>

NextFeed ==
    \/ Mount
    \/ Tick
    \/ ClickRefresh
    \/ ClickRetry
    \/ LoadSettles

SpecFeed == InitFeed /\ [][NextFeed]_vars

\* C27: isLoading is true whenever a loadNews call is outstanding, and a
\* load that settles after a later one was started changes neither the
\* articles nor the error shown: they stay those of the most recently
\* started load.
C27_FeedFollowsLatestLoad ==
    [][/\ loads' # {} => feedIsLoading'
       /\ \A k \in loads \ loads' :
             k < started => articles' = articles /\ feedError' = feedError]_vars

\* ------------------------------------------------------------------------
\* The NewsInputSection component
\* ------------------------------------------------------------------------

\* How many object URLs a behaviour creates.
MaxObjectUrls == 3

\* What the URL field can hold (a field that does not strip blanks included):
\* nothing, blanks, http and https URLs, a host without a scheme, other schemes, and URLs that do not parse.
TypedUrls == {
    << >>,
    <<" ">>,
    <<"h", "t", "t", "p", "s", ":", "/", "/", "b", "b", "c", ".", "c", "o", "m", "/", "n", "e", "w", "s">>,
    <<"h", "t", "t", "p", ":", "/", "/", "t", "h", "e", "o", "n", "i", "o", "n", ".", "c", "o", "m">>,
    <<"H", "T", "T", "P", "S", ":", "/", "/", "B", "B", "C", ".", "c", "o", "m">>,
    <<"b", "b", "c", ".", "c", "o", "m", "/", "n", "e", "w", "s">>,
    <<"f", "t", "p", ":", "/", "/", "b", "b", "c", ".", "c", "o", "m", "/", "x">>,
    <<"j", "a", "v", "a", "s", "c", "r", "i", "p", "t", ":", "a", "l", "e", "r", "t", "(", "1", ")">>,
    <<"h", "t", "t", "p", "s", ":", "/", "/">>,
    <<" ", "h", "t", "t", "p", "s", ":", "/", "/", "b", "b", "c", ".", "c", "o", "m", " ">>,
    <<"h", "t", "t", "p", ":", "b", "b", "c", ".", "c", "o", "m">>,
    <<"h", "t", "t", "p", "s", ":", "/", "/", "b", "b", "c", " ", ".", "c", "o", "m">>}

\* The files chosen or dropped: images, other types, a type that only
\* contains "image/", an unknown type; small, exactly 10 MB, one byte more.
Files ==
    [type : {
        <<"i", "m", "a", "g", "e", "/", "p", "n", "g">>,
        <<"i", "m", "a", "g", "e", "/", "j", "p", "e", "g">>,
        <<"a", "p", "p", "l", "i", "c", "a", "t", "i", "o", "n", "/", "p", "d", "f">>,
        <<"t", "e", "x", "t", "/", "i", "m", "a", "g", "e", "/", "p", "n", "g">>,
        << >>},
     size : {2048, 10 * 1024 * 1024, 10 * 1024 * 1024 + 1}]

InitInput ==
    ResolveIdle /\ LookupIdle /\ HandlerIdle /\ PageIdle /\ UiIdle

\* The part of the page and of the feed that NewsInputSection leaves alone;
\* of the page it sees the prop isLoading only.
InputFrame ==
    UNCHANGED <<indexResult, call, toast, outstanding, feedVars, resolveVars,
                lookupVars, handlerVars>>

\* IsValidUrl without the test of the protocol.
IsValidUrl_AnyProtocol(url) == UrlHostname(url) # Null

\* isValidUrl(url): new URL(url) does not throw and the protocol, the
\* lower-cased scheme and a colon, is "http:" or "https:".
IsValidUrl(url) ==
    /\ UrlHostname(url) # Null
    /\ ToLowerCase(SubSeq(Trim(url), 1, RunEnd(Trim(url), 1, SchemeChars)))
          \in {HttpScheme, HttpsScheme}

\* handleUrlChange, from the URL field (rendered in url mode, disabled while
\* isLoading).
HandleUrlChange ==
    /\ ~isLoading /\ mode = "url"
    /\ \E value \in TypedUrls : newsUrl' = value
    /\ inputError' = ""
    /\ UNCHANGED <<mode, selectedImage, imagePreview, objectUrls, created,
                   called, isLoading>>
    /\ InputFrame

\* handleModeChange, from the two mode buttons.
HandleModeChange ==
    /\ ~isLoading
    /\ \E newMode \in {"url", "image"} : mode' = newMode
    /\ inputError' = ""
    /\ UNCHANGED <<newsUrl, selectedImage, imagePreview, objectUrls, created,
                   called, isLoading>>
    /\ InputFrame

\* setSelectedImage(file); setImagePreview(URL.createObjectURL(file));
\* setError("").  createObjectURL registers a new URL.
SelectFile(file) ==
    /\ created < MaxObjectUrls
    /\ created' = created + 1
    /\ objectUrls' = objectUrls \cup {created'}
    /\ selectedImage' = Some(file)
    /\ imagePreview' = Some(created')
    /\ inputError' = ""

\* A handler returns after setError(message).
RejectFile(message) ==
    /\ inputError' = message
    /\ UNCHANGED <<selectedImage, imagePreview, objectUrls, created>>

\* handleImageSelect, from the file input, which is rendered in image mode
\* while no preview is shown.
HandleImageSelect ==
    /\ ~isLoading /\ mode = "image"
    /\ ~(selectedImage # Null /\ imagePreview # Null)
    /\ \E file \in Files :
          IF ~StartsWith(file.type, <<"i", "m", "a", "g", "e", "/">>)
          THEN RejectFile("Please upload an image file (PNG, JPG, JPEG).")
          ELSE IF file.size > 10 * 1024 * 1024
          THEN RejectFile("Image size must be less than 10MB.")
          ELSE SelectFile(file)
    /\ UNCHANGED <<mode, newsUrl, called, isLoading>>
    /\ InputFrame

\* handleRemoveImage, from the button on the preview.
HandleRemoveImage ==
    /\ ~isLoading /\ mode = "image"
    /\ selectedImage # Null /\ imagePreview # Null
    /\ selectedImage' = Null
    /\ imagePreview' = Null
    /\ objectUrls' = objectUrls \ {imagePreview[1]}
    /\ UNCHANGED <<mode, newsUrl, inputError, created, called, isLoading>>
    /\ InputFrame

\* handleDrop, on the drop zone of image mode, with or without a preview in
\* it; a drag that carries no file takes the else branch.
HandleDrop ==
    /\ ~isLoading /\ mode = "image"
    /\ \/ RejectFile("Please drop an image file (PNG, JPG, JPEG).")
       \/ \E file \in Files :
             IF ~StartsWith(file.type, <<"i", "m", "a", "g", "e", "/">>)
             THEN RejectFile("Please drop an image file (PNG, JPG, JPEG).")
             ELSE IF file.size > 10 * 1024 * 1024
             THEN RejectFile("Image size must be less than 10MB.")
             ELSE SelectFile(file)
    /\ UNCHANGED <<mode, newsUrl, called, isLoading>>
    /\ InputFrame

\* handleAnalyze, from the Analyze button.  onAnalyzeUrl is handleAnalyzeUrl
\* of the page, which sets isLoading until analyzeNews settles;
\* onAnalyzeImage is handleAnalyzeImage, which sets and clears it at once.
HandleAnalyze ==
    /\ AnalyzeEnabled
    /\ IF mode = "image"
       THEN IF selectedImage = Null
            THEN /\ inputError' = "Please upload a news screenshot or image."
                 /\ called' = NoCall
                 /\ UNCHANGED isLoading
            ELSE /\ inputError' = ""
                 /\ called' = [callback |-> "onAnalyzeImage", arg |-> selectedImage[1]]
                 /\ UNCHANGED isLoading
       ELSE IF Trim(newsUrl) = << >>
            THEN /\ inputError' = "Please enter a news URL to analyze."
                 /\ called' = NoCall
                 /\ UNCHANGED isLoading
            ELSE IF ~IsValidUrl(newsUrl)
            THEN /\ inputError' =
                       "Please enter a valid URL (starting with http:// or https://)."
                 /\ called' = NoCall
                 /\ UNCHANGED isLoading
            ELSE /\ inputError' = ""
                 /\ called' = [callback |-> "onAnalyzeUrl", arg |-> newsUrl]
                 /\ isLoading' = TRUE
    /\ UNCHANGED <<mode, newsUrl, selectedImage, imagePreview, objectUrls, created>>
    /\ InputFrame

\* The finally block of handleAnalyzeUrl: the prop isLoading is false again.
AnalysisSettles ==
    /\ isLoading
    /\ isLoading' = FALSE
    /\ UNCHANGED inputVars
    /\ InputFrame

NextInput ==
    \/ HandleUrlChange
    \/ HandleModeChange
    \/ HandleImageSelect
    \/ HandleRemoveImage
    \/ HandleDrop
    \/ HandleAnalyze
    \/ AnalysisSettles

SpecInput == InitInput /\ [][NextInput]_vars

\* ------------------------------------------------------------------------
\* Properties of NewsInputSection
\* ------------------------------------------------------------------------

\* The typed values that are not blank and that new URL parses with the
\* protocol http: or https:.
HttpUrls == {
    <<"h", "t", "t", "p", "s", ":", "/", "/", "b", "b", "c", ".", "c", "o", "m", "/", "n", "e", "w", "s">>,
    <<"h", "t", "t", "p", ":", "/", "/", "t", "h", "e", "o", "n", "i", "o", "n", ".", "c", "o", "m">>,
    <<"H", "T", "T", "P", "S", ":", "/", "/", "B", "B", "C", ".", "c", "o", "m">>,
    <<" ", "h", "t", "t", "p", "s", ":", "/", "/", "b", "b", "c", ".", "c", "o", "m", " ">>,
    <<"h", "t", "t", "p", ":", "b", "b", "c", ".", "c", "o", "m">>}

\* C28: handleAnalyze calls onAnalyzeUrl only with the URL field's value,
\* and only when it is a non-blank string that parses as an http or https
\* URL; it calls onAnalyzeImage only with the selected file, whose type
\* starts with "image/" and whose size is at most 10 MB; when validation
\* fails it sets an error message and calls neither.
C28_CallbacksGetValidatedInput ==
    [][HandleAnalyze =>
          /\ called'.callback = "onAnalyzeUrl" =>
                /\ mode = "url"
                /\ called'.arg = newsUrl
                /\ newsUrl \in HttpUrls
          /\ called'.callback = "onAnalyzeImage" =>
                /\ mode = "image"
                /\ selectedImage = Some(called'.arg)
                /\ SubSeq(called'.arg.type, 1, 6) = <<"i", "m", "a", "g", "e", "/">>
                /\ called'.arg.size <= 10485760
          /\ \/ mode = "url" /\ newsUrl \notin HttpUrls
             \/ mode = "image" /\ selectedImage = Null
             => inputError' # "" /\ called' = NoCall
          /\ called' = NoCall <=> inputError' # ""]_vars

\* An https URL written in upper case has been handed to onAnalyzeUrl.
C28_Witness ==
    /\ called = [callback |-> "onAnalyzeUrl", arg |-> <<"H", "T", "T", "P", "S", ":", "/", "/", "B", "B", "C", ".", "c", "o", "m">>]
    /\ isLoading
    /\ inputError = ""

\* C30: selectedImage is non-null exactly when imagePreview is, and the only
\* object URL not revoked is the current imagePreview.
C30_OnePreviewUrl ==
    /\ selectedImage # Null <=> imagePreview # Null
    /\ objectUrls = IF imagePreview = Null THEN {} ELSE {imagePreview[1]}

====
